---- MODULE Spec2Model ----
(***************************************************************************)
(* Model of task_manager/excel_report: the cell type classifier, the       *)
(* column type resolver, the importer (import_file / _process_sheet) and   *)
(* the analyzer entry point.                                               *)
(*                                                                         *)
(* Python values are records tagged with their class in "kind"; a Python   *)
(* str is a sequence of one-character strings; a Python dict is the        *)
(* sequence of its <<key, value>> items in insertion order.                *)
(***************************************************************************)
EXTENDS Integers, Sequences, FiniteSets, TLC

VARIABLES
    \* classifier harness: one call of _detect_cell_type
    value, detected,
    \* resolver harness: a histogram under construction and its resolution
    type_counts, resolved,
    \* sheet harness: one call of _process_sheet, then of _analyze_sheet
    ws_rows, sheet, analysis,
    \* column harness: one column imported, then one call of _analyze_column
    \* and one of ColumnStats.to_dict
    col_cells, col_stats, col_dict,
    \* import_file / analyze pipeline
    source, wb, sheet_names, has_header, max_rows,
    pc, handle, idx, result, returned, raised, clock,
    first_analysis, last_analysis

vars == <<value, detected, type_counts, resolved, ws_rows, sheet, analysis,
          col_cells, col_stats, col_dict,
          source, wb, sheet_names, has_header, max_rows,
          pc, handle, idx, result, returned, raised, clock,
          first_analysis, last_analysis>>

detectVars == <<value, detected>>
resolveVars == <<type_counts, resolved>>
sheetVars == <<ws_rows, sheet, analysis>>
columnVars == <<col_cells, col_stats, col_dict>>
callVars == <<has_header, max_rows>>
importVars == <<source, wb, sheet_names, pc, handle, idx, result, returned,
                raised, clock, first_analysis, last_analysis>>

(***************************************************************************)
(* Bounds of the model.                                                    *)
(***************************************************************************)
\* chunks concatenated into one input string of the classifier
MaxChunks == 3
\* cells counted into one histogram, and distinct types in it
MaxCells == 10
MaxKeys == 3
\* rows of the worksheet handed to _process_sheet
MaxSheetRows == 6
\* largest max_rows argument tried
MaxRowLimit == 2
\* sheets of a workbook, entries of a sheet filter
MaxSheets == 2
MaxFilter == 2
\* latest clock reading
MaxClock == 1
\* cells of the column handed to _analyze_column
MaxColCells == 4
\* largest count in a histogram handed to the resolver directly
MaxCount == 2

(***************************************************************************)
(* Generic helpers.                                                        *)
(***************************************************************************)
NoneVal == [kind |-> "none"]
Pending == "pending"

Max(S) == CHOOSE x \in S : \A y \in S : y <= x

RECURSIVE Concat(_)
Concat(ss) == IF ss = <<>> THEN <<>> ELSE Head(ss) \o Concat(Tail(ss))

RECURSIVE SumSeq(_)
SumSeq(ns) == IF ns = <<>> THEN 0 ELSE Head(ns) + SumSeq(Tail(ns))

Range(s) == {s[i] : i \in 1..Len(s)}

\* s[a..b] as Python's s[a-1:b]; empty when b < a
Slice(s, a, b) == IF b < a THEN <<>> ELSE SubSeq(s, a, b)

\* sequences over S of length at most n
SeqsUpTo(S, n) == UNION {[1..k -> S] : k \in 0..n}

(***************************************************************************)
(* class DataType(Enum): the members' values.                              *)
(***************************************************************************)
DataType == {"Integer", "Float", "Percentage", "Currency", "Text", "Boolean",
             "Date", "Time", "DateTime", "Email", "URL", "Phone", "Empty",
             "Mixed"}

(***************************************************************************)
(* Characters and str methods.                                             *)
(***************************************************************************)
Digits == {"0", "1", "2", "3", "4", "5", "6", "7", "8", "9"}
LowerLetters == {"a", "b", "c", "d", "e", "f", "g", "h", "i", "j", "k", "l",
                 "m", "n", "o", "p", "q", "r", "s", "t", "u", "v", "w", "x",
                 "y", "z"}
UpperLetters == {"A", "B", "C", "D", "E", "F", "G", "H", "I", "J", "K", "L",
                 "M", "N", "O", "P", "Q", "R", "S", "T", "U", "V", "W", "X",
                 "Y", "Z"}
Letters == LowerLetters \cup UpperLetters
\* the characters str.strip() removes and \s matches
Whitespace == {" ", "\t", "\n", "\r"}

UpperSeq == <<"A", "B", "C", "D", "E", "F", "G", "H", "I", "J", "K", "L", "M",
              "N", "O", "P", "Q", "R", "S", "T", "U", "V", "W", "X", "Y", "Z">>
LowerSeq == <<"a", "b", "c", "d", "e", "f", "g", "h", "i", "j", "k", "l", "m",
              "n", "o", "p", "q", "r", "s", "t", "u", "v", "w", "x", "y", "z">>

\* str.lower() on one character
LowerChar(c) ==
    IF c \in UpperLetters
    THEN LowerSeq[CHOOSE i \in 1..26 : UpperSeq[i] = c]
    ELSE c

\* str.lower()
Lower(s) == [i \in 1..Len(s) |-> LowerChar(s[i])]

\* str.strip()
Strip(s) ==
    LET keep == {i \in 1..Len(s) : s[i] \notin Whitespace}
    IN  IF keep = {} THEN <<>>
        ELSE Slice(s, CHOOSE i \in keep : \A j \in keep : i <= j, Max(keep))

\* str.replace(c, "") for a one-character c
RECURSIVE RemoveChar(_, _)
RemoveChar(s, c) ==
    IF s = <<>> THEN <<>>
    ELSE IF Head(s) = c THEN RemoveChar(Tail(s), c)
    ELSE <<Head(s)>> \o RemoveChar(Tail(s), c)

\* every character of s[a..b] is in S
AllIn(s, a, b, S) == \A k \in a..b : s[k] \in S

(***************************************************************************)
(* The compiled patterns, each as the set of splits of the whole string    *)
(* that the regular expression accepts (re.match with ^...$ on a stripped  *)
(* string, which has no trailing newline).                                 *)
(***************************************************************************)
\* $ and the four non-ASCII symbols U+20AC, U+00A3, U+00A5, U+20B9, each one
\* character, written here by name
CurrencySymbols == {"$", "EURO", "POUND", "YEN", "RUPEE"}

\* -?\d[\d,]*\.?\d*  on s[a..b]  (the number inside CURRENCY_PATTERN)
CurrencyNumber(s, a, b) ==
    LET st == IF a <= b /\ s[a] = "-" THEN a + 1 ELSE a
    IN  /\ st <= b
        /\ s[st] \in Digits
        /\ \E m \in st..b :
              /\ AllIn(s, st + 1, m, Digits \cup {","})
              /\ \/ AllIn(s, m + 1, b, Digits)
                 \/ /\ m + 1 <= b
                    /\ s[m + 1] = "."
                    /\ AllIn(s, m + 2, b, Digits)

\* ^-?\d+\.?\d*\s*%$
MatchesPercentage(s) ==
    LET n == Len(s)
        st == IF n >= 1 /\ s[1] = "-" THEN 2 ELSE 1
    IN  /\ n >= 1
        /\ s[n] = "%"
        /\ \E m \in st..(n - 1) :
              /\ AllIn(s, st, m, Digits)
              /\ \E w \in m..(n - 1) :
                    /\ AllIn(s, w + 1, n - 1, Whitespace)
                    /\ \/ AllIn(s, m + 1, w, Digits)
                       \/ /\ m + 1 <= w
                          /\ s[m + 1] = "."
                          /\ AllIn(s, m + 2, w, Digits)

\* ^[$...]\s*-?\d[\d,]*\.?\d*$ | ^-?\d[\d,]*\.?\d*\s*[$...]$
MatchesCurrency(s) ==
    LET n == Len(s)
    IN  \/ /\ n >= 1
           /\ s[1] \in CurrencySymbols
           /\ \E w \in 1..n :
                 /\ AllIn(s, 2, w, Whitespace)
                 /\ CurrencyNumber(s, w + 1, n)
        \/ /\ n >= 1
           /\ s[n] \in CurrencySymbols
           /\ \E w \in 0..(n - 1) :
                 /\ AllIn(s, w + 1, n - 1, Whitespace)
                 /\ CurrencyNumber(s, 1, w)

\* ^[a-zA-Z0-9._%+-]+@[a-zA-Z0-9.-]+\.[a-zA-Z]{2,}$
MatchesEmail(s) ==
    LET n == Len(s)
    IN  \E at \in 2..n :
          /\ s[at] = "@"
          /\ AllIn(s, 1, at - 1,
                   Letters \cup Digits \cup {".", "_", "%", "+", "-"})
          /\ \E dot \in (at + 2)..(n - 2) :
                /\ s[dot] = "."
                /\ AllIn(s, at + 1, dot - 1, Letters \cup Digits \cup {".", "-"})
                /\ AllIn(s, dot + 1, n, Letters)

\* ^https?://[^\s]+$ with re.IGNORECASE
MatchesURL(s) ==
    LET n == Len(s)
        l == Lower(s)
        HasPrefix(p) == /\ n > Len(p)
                        /\ SubSeq(l, 1, Len(p)) = p
                        /\ \A k \in (Len(p) + 1)..n : s[k] \notin Whitespace
    IN  \/ HasPrefix(<<"h", "t", "t", "p", ":", "/", "/">>)
        \/ HasPrefix(<<"h", "t", "t", "p", "s", ":", "/", "/">>)

\* ^[\+]?[(]?[0-9]{1,4}[)]?[-\s./0-9]{6,}$
MatchesPhone(s) ==
    LET n == Len(s)
        p1 == IF n >= 1 /\ s[1] = "+" THEN 2 ELSE 1
        PhoneTail == Digits \cup Whitespace \cup {"-", ".", "/"}
        From(st) ==
            \E k \in 1..4 :
              /\ st + k - 1 <= n
              /\ AllIn(s, st, st + k - 1, Digits)
              /\ \E t \in {st + k} \cup
                          {j \in {st + k + 1} : j - 1 <= n /\ s[j - 1] = ")"} :
                    /\ n - t + 1 >= 6
                    /\ AllIn(s, t, n, PhoneTail)
    IN  \/ From(p1)
        \/ p1 <= n /\ s[p1] = "(" /\ From(p1 + 1)
        \* "+" is optional in the pattern but, being outside every later
        \* class, is always consumed when present

(***************************************************************************)
(* The builtins int(str) and float(str): "ok" or the exception raised.     *)
(***************************************************************************)
\* digits, single underscores allowed between digits
DigitRun(s, a, b) ==
    /\ a <= b
    /\ s[a] \in Digits
    /\ s[b] \in Digits
    /\ AllIn(s, a, b, Digits \cup {"_"})
    /\ \A k \in a..(b - 1) : ~(s[k] = "_" /\ s[k + 1] = "_")

\* int(text): surrounding whitespace, an optional sign, decimal digits
IntParse(text) ==
    LET s == Strip(text)
        n == Len(s)
        st == IF n >= 1 /\ s[1] \in {"+", "-"} THEN 2 ELSE 1
    IN  IF DigitRun(s, st, n) THEN "ok" ELSE "ValueError"

\* the decimal part of a float literal on s[a..b]: 1  1.  1.5  .5
DecimalPart(s, a, b) ==
    \/ DigitRun(s, a, b)
    \/ \E d \in a..b :
          /\ s[d] = "."
          /\ \/ DigitRun(s, a, d - 1) /\ (d = b \/ DigitRun(s, d + 1, b))
             \/ d = a /\ DigitRun(s, d + 1, b)

\* float(text): surrounding whitespace, an optional sign, then inf, infinity,
\* nan (any case) or a decimal literal with an optional exponent
FloatParse(text) ==
    LET s == Strip(text)
        n == Len(s)
        st == IF n >= 1 /\ s[1] \in {"+", "-"} THEN 2 ELSE 1
        body == Lower(Slice(s, st, n))
        Special == {<<"i", "n", "f">>, <<"n", "a", "n">>,
                    <<"i", "n", "f", "i", "n", "i", "t", "y">>}
        Exponent(a) ==
            LET es == IF a <= n /\ s[a] \in {"+", "-"} THEN a + 1 ELSE a
            IN  es <= n /\ AllIn(s, es, n, Digits \cup {"_"}) /\ DigitRun(s, es, n)
    IN  IF \/ body \in Special
           \/ DecimalPart(s, st, n)
           \/ \E e \in (st + 1)..(n - 1) :
                 /\ s[e] \in {"e", "E"}
                 /\ DecimalPart(s, st, e - 1)
                 /\ Exponent(e + 1)
        THEN "ok" ELSE "ValueError"

(***************************************************************************)
(* Cell values: the classes openpyxl hands out, with Python's subclassing  *)
(* (bool is an int, datetime is a date).                                   *)
(***************************************************************************)
BoolV(b) == [kind |-> "bool", b |-> b]
IntV(n) == [kind |-> "int", n |-> n]
\* a float, in halves: FloatV(3) is 1.5
FloatV(h) == [kind |-> "float", h |-> h]
DateTimeV(d) == [kind |-> "datetime", d |-> d]
DateV(d) == [kind |-> "date", d |-> d]
TimeV(d) == [kind |-> "time", d |-> d]
StrV(s) == [kind |-> "str", s |-> s]
\* the int 10^e, for an e beyond the machine integers of the model
BigIntV(e) == [kind |-> "int", n |-> 1, e |-> e]
IsBig(v) == v.kind = "int" /\ "e" \in DOMAIN v
\* any other object (a timedelta, an error object)
OtherV(o) == [kind |-> "other", o |-> o]

IsInstance(v, cls) ==
    CASE cls = "int" -> v.kind \in {"int", "bool"}
      [] cls = "date" -> v.kind \in {"date", "datetime"}
      [] OTHER -> v.kind = cls

(***************************************************************************)
(* _detect_cell_type                                                       *)
(***************************************************************************)
\* the except clauses of the two try blocks
CaughtByDetect == {"ValueError", "OverflowError"}

BooleanWords == {<<"t", "r", "u", "e">>, <<"f", "a", "l", "s", "e">>,
                 <<"y", "e", "s">>, <<"n", "o">>}

\* the isinstance(value, str) branch, on the stripped string
DetectStringMutPhoneLast(stripped) ==
    LET bare == RemoveChar(stripped, ",")
    IN  IF stripped = <<>> THEN "Empty"
        ELSE IF Lower(stripped) \in BooleanWords THEN "Boolean"
        ELSE IF MatchesPercentage(stripped) THEN "Percentage"
        ELSE IF MatchesCurrency(stripped) THEN "Currency"
        ELSE IF MatchesEmail(stripped) THEN "Email"
        ELSE IF MatchesURL(stripped) THEN "URL"
        ELSE IF IntParse(bare) = "ok" THEN "Integer"
        ELSE IF FloatParse(bare) = "ok" THEN "Float"
        ELSE IF MatchesPhone(stripped) THEN "Phone"
        ELSE "Text"

\* a classifier that tries int() before the phone pattern
DetectStringMutIntFirst(stripped) ==
    LET bare == RemoveChar(stripped, ",")
    IN  IF stripped = <<>> THEN "Empty"
        ELSE IF Lower(stripped) \in BooleanWords THEN "Boolean"
        ELSE IF MatchesPercentage(stripped) THEN "Percentage"
        ELSE IF MatchesCurrency(stripped) THEN "Currency"
        ELSE IF MatchesEmail(stripped) THEN "Email"
        ELSE IF MatchesURL(stripped) THEN "URL"
        ELSE IF IntParse(bare) = "ok" THEN "Integer"
        ELSE IF MatchesPhone(stripped) THEN "Phone"
        ELSE IF FloatParse(bare) = "ok" THEN "Float"
        ELSE "Text"

DetectString(stripped) ==
    LET bare == RemoveChar(stripped, ",")
        tryInt == IntParse(bare)
        tryFloat == FloatParse(bare)
    IN  IF stripped = <<>> THEN "Empty"
        ELSE IF Lower(stripped) \in BooleanWords THEN "Boolean"
        ELSE IF MatchesPercentage(stripped) THEN "Percentage"
        ELSE IF MatchesCurrency(stripped) THEN "Currency"
        ELSE IF MatchesEmail(stripped) THEN "Email"
        ELSE IF MatchesURL(stripped) THEN "URL"
        ELSE IF MatchesPhone(stripped) THEN "Phone"
        ELSE IF tryInt = "ok" THEN "Integer"
        ELSE IF tryInt \notin CaughtByDetect THEN tryInt
        ELSE IF tryFloat = "ok" THEN "Float"
        ELSE IF tryFloat \notin CaughtByDetect THEN tryFloat
        ELSE "Text"

\* a classifier that lacks the final fall-through return
DetectCellTypeMutNoFallthrough(v) ==
    IF v = NoneVal THEN "Empty"
    ELSE IF IsInstance(v, "bool") THEN "Boolean"
    ELSE IF IsInstance(v, "int") THEN "Integer"
    ELSE IF IsInstance(v, "float") THEN "Float"
    ELSE IF IsInstance(v, "datetime") THEN "DateTime"
    ELSE IF IsInstance(v, "date") THEN "Date"
    ELSE IF IsInstance(v, "time") THEN "Time"
    ELSE IF IsInstance(v, "str") THEN DetectString(Strip(v.s))
    ELSE "None"

DetectCellType(v) ==
    IF v = NoneVal THEN "Empty"
    ELSE IF IsInstance(v, "bool") THEN "Boolean"
    ELSE IF IsInstance(v, "int") THEN "Integer"
    ELSE IF IsInstance(v, "float") THEN "Float"
    ELSE IF IsInstance(v, "datetime") THEN "DateTime"
    ELSE IF IsInstance(v, "date") THEN "Date"
    ELSE IF IsInstance(v, "time") THEN "Time"
    ELSE IF IsInstance(v, "str") THEN DetectString(Strip(v.s))
    ELSE "Text"

(***************************************************************************)
(* Inputs of the classifier harness.                                       *)
(***************************************************************************)
Chunks == {<<" ">>, <<"t", "r", "u", "e">>, <<"N", "O">>, <<"%">>, <<"$">>,
           <<"1">>, <<"2", "3", "4", "5", "6", "7">>, <<",">>, <<".">>,
           <<"-">>, <<"+">>, <<"e">>, <<"(">>, <<")">>,
           <<"a", "@", "b", ".", "c", "d">>,
           <<"H", "t", "t", "p", ":", "/", "/", "x">>}

InputStrings == {Concat(cs) : cs \in SeqsUpTo(Chunks, MaxChunks)}

NativeValues == {NoneVal, BoolV(TRUE), BoolV(FALSE), IntV(0), IntV(1), FloatV(2),
                 FloatV(3), DateTimeV(1), DateV(1), TimeV(1), OtherV(1)}

InputValues == NativeValues \cup {StrV(s) : s \in InputStrings}

(***************************************************************************)
(* dict operations (insertion-ordered items).                              *)
(***************************************************************************)
DictKeys(d) == {d[i][1] : i \in 1..Len(d)}

DictGet(d, k, default) ==
    IF k \in DictKeys(d)
    THEN d[CHOOSE i \in 1..Len(d) : d[i][1] = k][2]
    ELSE default

\* d[k] = d.get(k, 0) + 1
DictInc(d, k) ==
    IF k \in DictKeys(d)
    THEN [i \in 1..Len(d) |-> IF d[i][1] = k THEN <<k, d[i][2] + 1>> ELSE d[i]]
    ELSE Append(d, <<k, 1>>)

DictValues(d) == [i \in 1..Len(d) |-> d[i][2]]

(***************************************************************************)
(* _resolve_column_type                                                    *)
(***************************************************************************)
\* sorted(items, key=lambda x: -x[1]): descending count, stable
SortedByCountDesc(items) ==
    LET n == Len(items)
        Before(i, j) == \/ items[i][2] > items[j][2]
                        \/ items[i][2] = items[j][2] /\ i < j
        Rank(i) == 1 + Cardinality({j \in 1..n : Before(j, i)})
    IN  [r \in 1..n |-> items[CHOOSE i \in 1..n : Rank(i) = r]]

DominatesMutStrict(count, total) == count * 5 > total * 4

\* a threshold of one half, which two types can reach together
DominatesMutHalf(count, total) == count * 2 >= total

\* count / total >= 0.8.  The quotient is correctly rounded and 0.8 is the
\* double nearest 4/5, so for total < 10^15 the comparison of doubles agrees
\* with the exact one.
Dominates(count, total) == count * 5 >= total * 4

\* a resolver that looks for a dominant type before it widens
ResolveColumnTypeMutDominanceFirst(tc) ==
    LET non_empty == SelectSeq(tc, LAMBDA kv : kv[1] # "Empty")
        types_present == DictKeys(non_empty)
        total == SumSeq(DictValues(non_empty))
        ordered == SortedByCountDesc(non_empty)
        hits == {i \in 1..Len(ordered) : Dominates(ordered[i][2], total)}
    IN  IF non_empty = <<>> THEN "Empty"
        ELSE IF Len(non_empty) = 1 THEN non_empty[1][1]
        ELSE IF total = 0 THEN "ZeroDivisionError"
        ELSE IF hits # {}
             THEN ordered[CHOOSE i \in hits : \A j \in hits : i <= j][1]
        ELSE IF types_present = {"Integer", "Float"} THEN "Float"
        ELSE IF types_present = {"Date", "DateTime"} THEN "DateTime"
        ELSE "Mixed"

ResolveColumnType(tc) ==
    LET non_empty == SelectSeq(tc, LAMBDA kv : kv[1] # "Empty")
        types_present == DictKeys(non_empty)
        total == SumSeq(DictValues(non_empty))
        ordered == SortedByCountDesc(non_empty)
        hits == {i \in 1..Len(ordered) : Dominates(ordered[i][2], total)}
    IN  IF non_empty = <<>> THEN "Empty"
        ELSE IF Len(non_empty) = 1 THEN non_empty[1][1]
        ELSE IF types_present = {"Integer", "Float"} THEN "Float"
        ELSE IF types_present = {"Date", "DateTime"} THEN "DateTime"
        ELSE IF total = 0 THEN "ZeroDivisionError"
        ELSE IF hits # {}
             THEN ordered[CHOOSE i \in hits : \A j \in hits : i <= j][1]
        ELSE "Mixed"

\* the types counted into the histogram of the resolver harness
TypePool == {"Empty", "Integer", "Float", "Date", "DateTime", "Text"}

(***************************************************************************)
(* str(value), and the key under which a set holds a value (1 == 1.0 ==    *)
(* True hash alike).                                                       *)
(***************************************************************************)
DigitSeq == <<"0", "1", "2", "3", "4", "5", "6", "7", "8", "9">>

RECURSIVE NatChars(_)
NatChars(n) ==
    IF n < 10 THEN <<DigitSeq[n + 1]>>
    ELSE NatChars(n \div 10) \o <<DigitSeq[(n % 10) + 1]>>

IntChars(n) == IF n < 0 THEN <<"-">> \o NatChars(-n) ELSE NatChars(n)

PyStr(v) ==
    CASE v.kind = "none" -> <<"N", "o", "n", "e">>
      [] v.kind = "bool" -> IF v.b THEN <<"T", "r", "u", "e">>
                            ELSE <<"F", "a", "l", "s", "e">>
      [] v.kind = "int" ->
            IF IsBig(v) THEN <<"1">> \o [i \in 1..v.e |-> "0"]
            ELSE IntChars(v.n)
      [] v.kind = "float" ->
            LET a == IF v.h < 0 THEN -v.h ELSE v.h
            IN  (IF v.h < 0 THEN <<"-">> ELSE <<>>) \o NatChars(a \div 2)
                \o (IF a % 2 = 0 THEN <<".", "0">> ELSE <<".", "5">>)
      [] v.kind = "str" -> v.s
      \* dates of January 2024, day d; times at hour d
      [] v.kind = "date" ->
            <<"2", "0", "2", "4", "-", "0", "1", "-", "0">> \o NatChars(v.d)
      [] v.kind = "datetime" ->
            <<"2", "0", "2", "4", "-", "0", "1", "-", "0">> \o NatChars(v.d)
            \o <<" ", "0", "0", ":", "0", "0", ":", "0", "0">>
      [] v.kind = "time" ->
            <<"0">> \o NatChars(v.d) \o <<":", "0", "0", ":", "0", "0">>
      [] OTHER -> <<"o", "b", "j">>

PyKey(v) ==
    CASE v.kind = "bool" -> [kind |-> "number", h |-> IF v.b THEN 2 ELSE 0]
      [] v.kind = "int" -> IF IsBig(v) THEN v
                           ELSE [kind |-> "number", h |-> 2 * v.n]
      [] v.kind = "float" -> [kind |-> "number", h |-> v.h]
      [] OTHER -> v

(***************************************************************************)
(* openpyxl.utils.get_column_letter: 1 -> A, 26 -> Z, 27 -> AA             *)
(***************************************************************************)
RECURSIVE get_column_letter(_)
get_column_letter(n) ==
    IF n <= 26 THEN <<UpperSeq[n]>>
    ELSE get_column_letter((n - 1) \div 26) \o <<UpperSeq[((n - 1) % 26) + 1]>>

ColumnPrefix == <<"C", "o", "l", "u", "m", "n", "_">>

(***************************************************************************)
(* ExcelImporter._process_sheet                                            *)
(***************************************************************************)
\* len(samples) < 5
SampleLimit == 5

\* seq[:k] for an int k
SliceTo(s, k) ==
    IF k >= 0 THEN Slice(s, 1, IF k < Len(s) THEN k ELSE Len(s))
    ELSE Slice(s, 1, Len(s) + k)

RECURSIVE CountTypes(_, _)
CountTypes(types, acc) ==
    IF types = <<>> THEN acc
    ELSE CountTypes(Tail(types), DictInc(acc, Head(types)))

\* headers[i] for the 0-based column i; use_raw is "raw_headers is not None"
HeaderLabel(raw_headers, use_raw, i) ==
    IF use_raw /\ Len(raw_headers) > 0 /\ i < Len(raw_headers)
       /\ raw_headers[i + 1] # NoneVal
    THEN PyStr(raw_headers[i + 1])
    ELSE ColumnPrefix \o get_column_letter(i + 1)

PadRowMutOverPad(row, num_cols) == row \o [k \in 1..num_cols |-> NoneVal]

\* (list(row) + [None] * (num_cols - len(row)))[:num_cols]
PadRow(row, num_cols) ==
    SliceTo(row \o [k \in 1..(num_cols - Len(row)) |-> NoneVal], num_cols)

DataRowsMutKeepHeader(all_rows, hdr, limit) ==
    IF limit = NoneVal THEN all_rows ELSE SliceTo(all_rows, limit.n)

\* the limit applied to the worksheet rows, the header row among them
DataRowsMutLimitFirst(all_rows, hdr, limit) ==
    LET cut == IF limit = NoneVal THEN all_rows ELSE SliceTo(all_rows, limit.n)
    IN  IF hdr /\ cut # <<>> THEN Tail(cut) ELSE cut

\* data_rows: the rows after the header row, cut to max_rows
DataRows(all_rows, hdr, limit) ==
    LET rows == IF hdr THEN Tail(all_rows) ELSE all_rows
    IN  IF limit = NoneVal THEN rows ELSE SliceTo(rows, limit.n)

SamplesMutAll(col_values) ==
    SelectSeq(col_values, LAMBDA v : DetectCellType(v) # "Empty")

\* samples: the first five values that are not classified Empty
Samples(col_values) ==
    SliceTo(SelectSeq(col_values, LAMBDA v : DetectCellType(v) # "Empty"),
            SampleLimit)

\* the ColumnInfo of column col_idx (0-based)
BuildColumn(col_idx, header, normalized_rows) ==
    LET col_values == [r \in 1..Len(normalized_rows) |->
                          normalized_rows[r][col_idx + 1]]
        types == [r \in 1..Len(col_values) |-> DetectCellType(col_values[r])]
        tc == CountTypes(types, <<>>)
        filled == SelectSeq(col_values, LAMBDA v : DetectCellType(v) # "Empty")
    IN  [index |-> col_idx,
         letter |-> get_column_letter(col_idx + 1),
         header |-> header,
         detected_type |-> ResolveColumnType(tc),
         non_empty_count |-> Len(filled),
         empty_count |-> Len(col_values) - Len(filled),
         total_count |-> Len(normalized_rows),
         sample_values |-> Samples(col_values),
         unique_count |-> Cardinality({PyKey(filled[i]) : i \in 1..Len(filled)}),
         type_counts |-> tc]

\* SheetData(name)
EmptySheetData(name) ==
    [name |-> name, columns |-> <<>>, rows |-> <<>>, headers |-> <<>>,
     row_count |-> 0, col_count |-> 0]

ProcessSheet(all_rows, name, hdr, limit) ==
    IF all_rows = <<>> THEN EmptySheetData(name)
    ELSE
    LET raw_headers == IF hdr THEN all_rows[1] ELSE <<>>
        data_rows == DataRows(all_rows, hdr, limit)
        num_cols == Max({Len(all_rows[r]) : r \in 1..Len(all_rows)})
        headers == [c \in 1..num_cols |-> HeaderLabel(raw_headers, hdr, c - 1)]
        normalized_rows == [r \in 1..Len(data_rows) |->
                               PadRow(data_rows[r], num_cols)]
    IN  [name |-> name,
         columns |-> [c \in 1..num_cols |->
                         BuildColumn(c - 1, headers[c], normalized_rows)],
         rows |-> normalized_rows,
         headers |-> headers,
         row_count |-> Len(data_rows),
         col_count |-> num_cols]

(***************************************************************************)
(* Inputs of the sheet harness: worksheets whose rows iter_rows yields     *)
(* with differing lengths.                                                 *)
(***************************************************************************)
Blank == StrV(<<" ", " ">>)

RowPool == {<<>>,
            <<Blank, IntV(1)>>,
            <<StrV(<<"a", "b">>), FloatV(2), NoneVal, BoolV(TRUE)>>}

RowLimits == {NoneVal} \cup {IntV(k) : k \in 0..MaxRowLimit}

(***************************************************************************)
(* Exact fractions [n, d] in lowest terms with d > 0, for the analyzer's   *)
(* percentages and scores.                                                 *)
(***************************************************************************)
RECURSIVE Gcd(_, _)
Gcd(a, b) == IF b = 0 THEN a ELSE Gcd(b, a % b)

Abs(x) == IF x < 0 THEN -x ELSE x

Frac(n, d) ==
    LET g == Gcd(Abs(n), Abs(d))
        sg == IF d < 0 THEN -1 ELSE 1
    IN  [n |-> sg * (n \div g), d |-> sg * (d \div g)]

FracAdd(x, y) == Frac(x.n * y.d + y.n * x.d, x.d * y.d)
FracSub(x, y) == Frac(x.n * y.d - y.n * x.d, x.d * y.d)
FracDivInt(x, k) == Frac(x.n, x.d * k)
FracLe(x, y) == x.n * y.d <= y.n * x.d
FracMin(x, y) == IF FracLe(x, y) THEN x ELSE y
FracMax(x, y) == IF FracLe(x, y) THEN y ELSE x

RECURSIVE FracSum(_)
FracSum(xs) == IF xs = <<>> THEN Frac(0, 1) ELSE FracAdd(Head(xs), FracSum(Tail(xs)))

(***************************************************************************)
(* Python floats beyond the finite ones: nan is [n |-> 0, d |-> 0] and     *)
(* +inf / -inf are [n |-> 1, d |-> 0] / [n |-> -1, d |-> 0].  Finite       *)
(* values are exact fractions: the model's cell values are small, so no    *)
(* finite operation here leaves the range of a double.                     *)
(***************************************************************************)
Nan == [n |-> 0, d |-> 0]
Inf(sign) == [n |-> sign, d |-> 0]
IsNan(x) == x.d = 0 /\ x.n = 0
IsInf(x) == x.d = 0 /\ x.n # 0

NumNeg(x) == [n |-> -x.n, d |-> x.d]

NumAdd(x, y) ==
    IF IsNan(x) \/ IsNan(y) THEN Nan
    ELSE IF IsInf(x) THEN (IF IsInf(y) /\ y.n # x.n THEN Nan ELSE x)
    ELSE IF IsInf(y) THEN y
    ELSE FracAdd(x, y)

NumSub(x, y) == NumAdd(x, NumNeg(y))

NumMul(x, y) ==
    IF IsNan(x) \/ IsNan(y) THEN Nan
    ELSE IF x.d = 0 \/ y.d = 0
    THEN (IF x.n = 0 \/ y.n = 0 THEN Nan
          ELSE Inf(IF (x.n < 0) = (y.n < 0) THEN 1 ELSE -1))
    ELSE Frac(x.n * y.n, x.d * y.d)

\* x / k for an int k > 0
NumDivInt(x, k) == IF x.d = 0 THEN x ELSE FracDivInt(x, k)

\* x < y; every comparison with nan is False
NumLt(x, y) ==
    /\ ~IsNan(x)
    /\ ~IsNan(y)
    /\ IF x.d = 0 /\ y.d = 0 THEN x.n < y.n
       ELSE IF x.d = 0 THEN x.n < 0
       ELSE IF y.d = 0 THEN y.n > 0
       ELSE x.n * y.d < y.n * x.d

\* x > y
NumGt(x, y) == NumLt(y, x)

RECURSIVE Pow10(_)
Pow10(e) == IF e = 0 THEN 1 ELSE 10 * Pow10(e - 1)

RECURSIVE DigitsValue(_)
DigitsValue(ds) ==
    IF ds = <<>> THEN 0
    ELSE 10 * DigitsValue(SubSeq(ds, 1, Len(ds) - 1))
         + ((CHOOSE i \in 1..10 : DigitSeq[i] = ds[Len(ds)]) - 1)

\* the value of float(text) for a text that float() accepts
FloatValue(text) ==
    LET s == Strip(text)
        n == Len(s)
        sign == IF n >= 1 /\ s[1] = "-" THEN -1 ELSE 1
        st == IF n >= 1 /\ s[1] \in {"+", "-"} THEN 2 ELSE 1
        body == Lower(Slice(s, st, n))
        es == {i \in st..n : body[i - st + 1] = "e"}
        mend == IF es = {} THEN n ELSE (CHOOSE i \in es : \A j \in es : i <= j) - 1
        mant == RemoveChar(Slice(s, st, mend), "_")
        dots == {i \in 1..Len(mant) : mant[i] = "."}
        fraclen == IF dots = {} THEN 0 ELSE Len(mant) - Max(dots)
        digits == RemoveChar(mant, ".")
        etext == RemoveChar(Slice(s, mend + 2, n), "_")
        esign == IF etext # <<>> /\ etext[1] = "-" THEN -1 ELSE 1
        edigits == IF etext # <<>> /\ etext[1] \in {"+", "-"} THEN Tail(etext)
                   ELSE etext
        exp == esign * DigitsValue(edigits) - fraclen
    IN  IF body = <<"n", "a", "n">> THEN Nan
        ELSE IF body \in {<<"i", "n", "f">>,
                          <<"i", "n", "f", "i", "n", "i", "t", "y">>}
        THEN Inf(sign)
        ELSE IF exp >= 0 THEN Frac(sign * DigitsValue(digits) * Pow10(exp), 1)
        ELSE Frac(sign * DigitsValue(digits), Pow10(-exp))

(***************************************************************************)
(* ImportResult                                                            *)
(***************************************************************************)
\* s.rsplit(sep, 1)[-1]
AfterLast(s, sep) ==
    LET at == {i \in 1..Len(s) : s[i] = sep}
    IN  IF at = {} THEN s ELSE Slice(s, Max(at) + 1, Len(s))

\* ImportResult(file_path) constructed when the clock reads now
NewImportResult(file_path, now) ==
    [file_path |-> file_path,
     file_name |-> AfterLast(AfterLast(file_path, "/"), "\\"),
     sheets |-> <<>>,
     import_time |-> now,
     total_rows |-> 0,
     total_columns |-> 0]

(***************************************************************************)
(* DataAnalyzer                                                            *)
(***************************************************************************)
\* tuple(str(v) if v is not None else "" for v in row)
RowTuple(row) ==
    [c \in 1..Len(row) |-> IF row[c] = NoneVal THEN <<>> ELSE PyStr(row[c])]

AllEmpty(row_tuple) == \A c \in 1..Len(row_tuple) : row_tuple[c] = <<>>

\* the values _analyze_column counts: not None and not blank as a string
NonEmptyVals(values) ==
    SelectSeq(values, LAMBDA v : v # NoneVal /\ Strip(PyStr(v)) # <<>>)

\* sum(c - 1 for c in val_counts.values() if c > 1)
DuplicateCount(values) ==
    LET ne == NonEmptyVals(values)
    IN  Len(ne) - Cardinality({PyStr(ne[i]) : i \in 1..Len(ne)})

\* Counter(str(v) for v in non_empty_vals): the items in the order in which
\* each string was first encountered
ValCounts(values) ==
    LET ne == NonEmptyVals(values)
    IN  CountTypes([i \in 1..Len(ne) |-> PyStr(ne[i])], <<>>)

\* the n of val_counts.most_common(n)
TopLimit == 10

\* a ranking in which, of two strings with equal counts, the one encountered
\* later comes first
TopValuesMutLaterFirst(values) ==
    LET items == ValCounts(values)
        backwards == [i \in 1..Len(items) |-> items[Len(items) + 1 - i]]
    IN  SliceTo(SortedByCountDesc(backwards), TopLimit)

\* val_counts.most_common(10): heapq.nlargest with key = the count, which
\* returns sorted(items, key = count, reverse = True)[:10]; that sort is
\* stable, so equal counts stay in the order of first encounter
TopValues(values) == SliceTo(SortedByCountDesc(ValCounts(values)), TopLimit)

\* an exception leaving the analyzer
Raise(exc) == [exc |-> exc]
Raised(x) == "exc" \in DOMAIN x

\* sys.float_info.max_10_exp: float(10 ** e) raises OverflowError beyond it
FloatMax10Exp == 308

\* str.rstrip(c) for a one-character c
RECURSIVE RStripChar(_, _)
RStripChar(s, c) ==
    IF s # <<>> /\ s[Len(s)] = c THEN RStripChar(SubSeq(s, 1, Len(s) - 1), c)
    ELSE s

\* the loop over the currency symbols: cleaned.replace(sym, "")
RECURSIVE RemoveSymbols(_, _)
RemoveSymbols(s, syms) ==
    IF syms = {} THEN s
    ELSE LET c == CHOOSE x \in syms : TRUE
         IN  RemoveSymbols(RemoveChar(s, c), syms \ {c})

\* _to_numeric: None, the float, or the exception float(value) raises
ToNumeric(v) ==
    IF v = NoneVal THEN NoneVal
    ELSE IF IsInstance(v, "bool") THEN NoneVal
    ELSE IF IsInstance(v, "int") THEN
        (IF IsBig(v)
         THEN (IF v.e > FloatMax10Exp THEN Raise("OverflowError")
               ELSE Frac(Pow10(v.e), 1))
         ELSE Frac(v.n, 1))
    ELSE IF IsInstance(v, "float") THEN Frac(v.h, 2)
    ELSE IF IsInstance(v, "str") THEN
        LET cleaned == Strip(RStripChar(
                           RemoveSymbols(RemoveChar(Strip(v.s), ","),
                                         CurrencySymbols), "%"))
        IN  IF FloatParse(cleaned) = "ok" THEN FloatValue(cleaned)
            ELSE NoneVal
    ELSE NoneVal

\* list.sort on a list of fewer than 64 floats: the leading run is found
\* (and reversed when strictly descending), the rest is inserted by binary
\* search; every comparison is "<"
RECURSIVE RunLen(_, _, _)
RunLen(a, k, desc) ==
    IF k < Len(a) /\ (NumLt(a[k + 1], a[k]) = desc)
    THEN RunLen(a, k + 1, desc)
    ELSE k

Reverse(a) == [i \in 1..Len(a) |-> a[Len(a) + 1 - i]]

\* the insertion point of pivot in a[l+1..r] (l, r as 0-based bounds)
RECURSIVE BinarySearch(_, _, _, _)
BinarySearch(a, pivot, l, r) ==
    IF l < r
    THEN LET p == l + ((r - l) \div 2)
         IN  IF NumLt(pivot, a[p + 1]) THEN BinarySearch(a, pivot, l, p)
             ELSE BinarySearch(a, pivot, p + 1, r)
    ELSE l

RECURSIVE BinarySort(_, _)
BinarySort(a, i) ==
    IF i > Len(a) THEN a
    ELSE LET l == BinarySearch(a, a[i], 0, i - 1)
         IN  BinarySort(SubSeq(a, 1, l) \o <<a[i]>> \o SubSeq(a, l + 1, i - 1)
                        \o SubSeq(a, i + 1, Len(a)), i + 1)

\* sorted(nums)
Sorted(a) ==
    IF Len(a) <= 1 THEN a
    ELSE LET desc == NumLt(a[2], a[1])
             k == RunLen(a, 2, desc)
             run == IF desc THEN Reverse(SubSeq(a, 1, k)) ELSE SubSeq(a, 1, k)
         IN  BinarySort(run \o SubSeq(a, k + 1, Len(a)), k + 1)

\* sum(xs): 0 + xs[0] + xs[1] + ...
RECURSIVE NumSum(_, _)
NumSum(acc, xs) ==
    IF xs = <<>> THEN acc ELSE NumSum(NumAdd(acc, Head(xs)), Tail(xs))

\* math.sqrt(x), kept as the radicand
SqrtOf(x) == [sqrt |-> x]

\* the numeric fields of a ColumnStats as __init__ leaves them
NumericDefaults ==
    [min_val |-> NoneVal, max_val |-> NoneVal, sum_val |-> NoneVal,
     mean_val |-> NoneVal, median_val |-> NoneVal, std_dev |-> NoneVal,
     has_outliers |-> FALSE, outlier_count |-> 0]

\* the coerced values: [n for n in (_to_numeric(v) ...) if n is not None]
Coerced(values) ==
    SelectSeq([i \in 1..Len(values) |-> ToNumeric(values[i])],
              LAMBDA x : x # NoneVal)

\* a first quartile taken one position lower
Quartile1MutOneLower(nums_sorted) == nums_sorted[Len(nums_sorted) \div 4]

\* q1 = nums_sorted[len(nums_sorted) // 4]
Quartile1(nums_sorted) == nums_sorted[(Len(nums_sorted) \div 4) + 1]

\* q3 = nums_sorted[3 * len(nums_sorted) // 4]
Quartile3(nums_sorted) == nums_sorted[((3 * Len(nums_sorted)) \div 4) + 1]

\* _compute_numeric_stats: the numeric fields it leaves in stats
ComputeNumericStats(values) ==
    LET Variance(nums, mean_val) ==
            NumDivInt(NumSum(Frac(0, 1),
                             [i \in 1..Len(nums) |->
                                 LET dev == NumSub(nums[i], mean_val)
                                 IN  NumMul(dev, dev)]),
                      Len(nums) - 1)
        Median(nums_sorted, n) ==
            IF n % 2 = 1 THEN nums_sorted[(n \div 2) + 1]
            ELSE NumDivInt(NumAdd(nums_sorted[n \div 2],
                                  nums_sorted[(n \div 2) + 1]), 2)
        Beyond(nums, lower_bound, upper_bound) ==
            SelectSeq(nums, LAMBDA x : \/ NumLt(x, lower_bound)
                                       \/ NumGt(x, upper_bound))
        Bounded(nums, q1, q3, iqr) ==
            Beyond(nums, NumSub(q1, NumMul(Frac(3, 2), iqr)),
                         NumAdd(q3, NumMul(Frac(3, 2), iqr)))
        Outliers(nums, q1, q3) == Bounded(nums, q1, q3, NumSub(q3, q1))
        Flagged(outliers) ==
            [has_outliers |-> Len(outliers) > 0,
             outlier_count |-> Len(outliers)]
        Fields(nums, nums_sorted, n, sum_val, mean_val, flags) ==
            [min_val |-> nums_sorted[1],
             max_val |-> nums_sorted[n],
             sum_val |-> sum_val,
             mean_val |-> mean_val,
             median_val |-> Median(nums_sorted, n),
             std_dev |-> IF n > 1 THEN SqrtOf(Variance(nums, mean_val))
                         ELSE Frac(0, 1),
             has_outliers |-> flags.has_outliers,
             outlier_count |-> flags.outlier_count]
        Summed(nums, nums_sorted, n, sum_val) ==
            Fields(nums, nums_sorted, n, sum_val, NumDivInt(sum_val, n),
                   IF n >= 4
                   THEN Flagged(Outliers(nums, Quartile1(nums_sorted),
                                         Quartile3(nums_sorted)))
                   ELSE [has_outliers |-> FALSE, outlier_count |-> 0])
        Stats(nums) ==
            IF nums = <<>> THEN NumericDefaults
            ELSE Summed(nums, Sorted(nums), Len(nums),
                        NumSum(Frac(0, 1), nums))
    IN  IF \E i \in 1..Len(values) : Raised(ToNumeric(values[i]))
        THEN Raise("OverflowError")
        ELSE Stats(Coerced(values))

NumericFamily == {"Integer", "Float", "Currency", "Percentage"}

CompletenessMutFullWhenEmpty(non_empty_count, total_count) ==
    IF total_count > 0 THEN Frac(non_empty_count * 100, total_count)
    ELSE Frac(100, 1)

\* stats.completeness
Completeness(non_empty_count, total_count) ==
    IF total_count > 0 THEN Frac(non_empty_count * 100, total_count)
    ELSE Frac(0, 1)

\* the text fields of a ColumnStats as __init__ leaves them
TextDefaults ==
    [min_length |-> NoneVal, max_length |-> NoneVal, avg_length |-> NoneVal]

\* _compute_text_stats: the text fields it leaves in stats
ComputeTextStats(values) ==
    LET present == SelectSeq(values, LAMBDA v : /\ v # NoneVal
                                                /\ Strip(PyStr(v)) # <<>>)
        Measured(lengths) ==
            IF lengths = <<>> THEN TextDefaults
            ELSE [min_length |-> IntV(CHOOSE x \in Range(lengths) :
                                          \A y \in Range(lengths) : x <= y),
                  max_length |-> IntV(Max(Range(lengths))),
                  avg_length |-> Frac(SumSeq(lengths), Len(lengths))]
    IN  Measured([i \in 1..Len(present) |-> Len(Strip(PyStr(present[i])))])

\* a truth test under which every string other than "no" and "false" is true
IsTruthyMutAnyWord(v) ==
    IF IsInstance(v, "bool") THEN v.b
    ELSE IF IsInstance(v, "str")
    THEN Lower(Strip(v.s)) \notin {<<"n", "o">>, <<"f", "a", "l", "s", "e">>}
    ELSE FALSE

\* _is_truthy
IsTruthy(v) ==
    IF IsInstance(v, "bool") THEN v.b
    ELSE IF IsInstance(v, "str")
    THEN Lower(Strip(v.s)) \in {<<"t", "r", "u", "e">>, <<"y", "e", "s">>}
    ELSE FALSE

\* the boolean fields of a ColumnStats as __init__ leaves them
BooleanDefaults == [true_count |-> 0, false_count |-> 0]

\* _compute_boolean_stats: the loop over values, from the counts in acc
RECURSIVE ComputeBooleanStats(_, _)
ComputeBooleanStats(values, acc) ==
    IF values = <<>> THEN acc
    ELSE LET v == Head(values)
         IN  ComputeBooleanStats(Tail(values),
                 IF v = NoneVal THEN acc
                 ELSE IF IsInstance(v, "str") /\ Strip(v.s) = <<>> THEN acc
                 ELSE IF IsTruthy(v) THEN [acc EXCEPT !.true_count = @ + 1]
                 ELSE [acc EXCEPT !.false_count = @ + 1])

\* _to_date_sortable: the datetime of a date is its midnight
ToDateSortable(v) ==
    IF IsInstance(v, "datetime") THEN v
    ELSE IF IsInstance(v, "date") THEN DateTimeV(v.d)
    ELSE NoneVal

\* datetime.isoformat() of a midnight of January 2024
IsoFormat(dt) ==
    <<"2", "0", "2", "4", "-", "0", "1", "-", "0">> \o NatChars(dt.d)
    \o <<"T", "0", "0", ":", "0", "0", ":", "0", "0">>

\* the date fields of a ColumnStats as __init__ leaves them
DateDefaults == [earliest |-> NoneVal, latest |-> NoneVal]

\* _compute_date_stats: the date fields it leaves in stats
ComputeDateStats(values) ==
    LET Ends(days) ==
            IF days = {} THEN DateDefaults
            ELSE [earliest |-> StrV(IsoFormat(DateTimeV(
                                   CHOOSE x \in days : \A y \in days : x <= y))),
                  latest |-> StrV(IsoFormat(DateTimeV(Max(days))))]
    IN  Ends({ToDateSortable(values[i]).d :
                 i \in {j \in 1..Len(values) :
                           ToDateSortable(values[j]) # NoneVal}})

\* a text family that takes in the Time columns
TextFamilyMutWithTime == {"Text", "Email", "URL", "Phone", "Time"}

\* the types for which _analyze_column computes text, date statistics
TextFamily == {"Text", "Email", "URL", "Phone"}
DateFamily == {"Date", "DateTime"}

AnalyzeColumn(col_info, values) ==
    LET Stats(num, text, bools, dates) ==
            IF Raised(num) THEN num
            ELSE
            [header |-> col_info.header,
             data_type |-> col_info.detected_type,
             total_count |-> col_info.total_count,
             non_empty_count |-> col_info.non_empty_count,
             empty_count |-> col_info.empty_count,
             unique_count |-> col_info.unique_count,
             completeness |-> Completeness(col_info.non_empty_count,
                                           col_info.total_count),
             duplicate_count |-> DuplicateCount(values),
             top_values |-> TopValues(values),
             min_val |-> num.min_val,
             max_val |-> num.max_val,
             sum_val |-> num.sum_val,
             mean_val |-> num.mean_val,
             median_val |-> num.median_val,
             std_dev |-> num.std_dev,
             has_outliers |-> num.has_outliers,
             outlier_count |-> num.outlier_count,
             min_length |-> text.min_length,
             max_length |-> text.max_length,
             avg_length |-> text.avg_length,
             true_count |-> bools.true_count,
             false_count |-> bools.false_count,
             earliest |-> dates.earliest,
             latest |-> dates.latest]
        Family(dtype) ==
            Stats(IF dtype \in NumericFamily
                  THEN ComputeNumericStats(values) ELSE NumericDefaults,
                  IF dtype \notin NumericFamily /\ dtype \in TextFamily
                  THEN ComputeTextStats(values) ELSE TextDefaults,
                  IF dtype \notin NumericFamily \cup TextFamily
                     /\ dtype = "Boolean"
                  THEN ComputeBooleanStats(values, BooleanDefaults)
                  ELSE BooleanDefaults,
                  IF dtype \notin NumericFamily \cup TextFamily \cup {"Boolean"}
                     /\ dtype \in DateFamily
                  THEN ComputeDateStats(values) ELSE DateDefaults)
    IN  Family(col_info.detected_type)

\* round(x, ndigits) of a float: to the nearest multiple of 10^-ndigits, a
\* tie going to the even one; nan and the infinities are returned as they
\* are, and the root of a variance stays a root, marked with the digits
PyRound(x, ndigits) ==
    IF "sqrt" \in DOMAIN x THEN [round |-> x, ndigits |-> ndigits]
    ELSE IF x.d = 0 THEN x
    ELSE LET scaled == x.n * Pow10(ndigits)
             whole == scaled \div x.d
             rest == scaled % x.d
             nearest == IF 2 * rest < x.d THEN whole
                        ELSE IF 2 * rest > x.d THEN whole + 1
                        ELSE IF whole % 2 = 0 THEN whole
                        ELSE whole + 1
         IN  Frac(nearest, Pow10(ndigits))

\* round(x, ndigits) if x is not None else None
RoundOrNone(x, ndigits) == IF x = NoneVal THEN NoneVal ELSE PyRound(x, ndigits)

\* the types whose text_stats to_dict writes
SerializedTextTypes == {"Text", "Email", "URL"}

\* ColumnStats.to_dict: the items of the dict in insertion order
ToDict(stats) ==
    <<<<"header", stats.header>>,
      <<"data_type", stats.data_type>>,
      <<"total_count", stats.total_count>>,
      <<"non_empty_count", stats.non_empty_count>>,
      <<"empty_count", stats.empty_count>>,
      <<"unique_count", stats.unique_count>>,
      <<"completeness", PyRound(stats.completeness, 2)>>,
      <<"duplicate_count", stats.duplicate_count>>>>
    \o (IF stats.data_type \in NumericFamily
        THEN <<<<"numeric_stats",
                 <<<<"min", stats.min_val>>,
                   <<"max", stats.max_val>>,
                   <<"sum", RoundOrNone(stats.sum_val, 4)>>,
                   <<"mean", RoundOrNone(stats.mean_val, 4)>>,
                   <<"median", stats.median_val>>,
                   <<"std_dev", RoundOrNone(stats.std_dev, 4)>>,
                   <<"has_outliers", stats.has_outliers>>,
                   <<"outlier_count", stats.outlier_count>>>>>>>>
        ELSE <<>>)
    \o (IF stats.data_type \in SerializedTextTypes
        THEN <<<<"text_stats",
                 <<<<"min_length", stats.min_length>>,
                   <<"max_length", stats.max_length>>,
                   <<"avg_length", RoundOrNone(stats.avg_length, 1)>>>>>>>>
        ELSE <<>>)
    \o (IF stats.data_type = "Boolean"
        THEN <<<<"boolean_stats",
                 <<<<"true_count", stats.true_count>>,
                   <<"false_count", stats.false_count>>,
                   <<"true_pct",
                     IF stats.non_empty_count > 0
                     THEN PyRound(Frac(stats.true_count * 100,
                                       stats.non_empty_count), 1)
                     ELSE IntV(0)>>>>>>>>
        ELSE <<>>)
    \o (IF stats.data_type \in DateFamily
        THEN <<<<"date_stats",
                 <<<<"earliest", stats.earliest>>,
                   <<"latest", stats.latest>>>>>>>>
        ELSE <<>>)
    \o (IF stats.top_values # <<>>
        THEN <<<<"top_values",
                 [i \in 1..Len(stats.top_values) |->
                     <<<<"value", stats.top_values[i][1]>>,
                       <<"count", stats.top_values[i][2]>>>>]>>>>
        ELSE <<>>)

\* a scan in which an empty row seen before counts as a duplicate as well
RECURSIVE ScanRowsMutEmptyDup(_, _, _)
ScanRowsMutEmptyDup(rows, seen_rows, acc) ==
    IF rows = <<>> THEN acc
    ELSE LET row_tuple == RowTuple(Head(rows))
             e == IF AllEmpty(row_tuple) THEN 1 ELSE 0
             d == IF row_tuple \in seen_rows THEN 1 ELSE 0
         IN  ScanRowsMutEmptyDup(Tail(rows), seen_rows \cup {row_tuple},
                 [empty |-> acc.empty + e, dup |-> acc.dup + d])

\* the loop over sheet.rows: completely_empty_rows and duplicate_rows
RECURSIVE ScanRows(_, _, _)
ScanRows(rows, seen_rows, acc) ==
    IF rows = <<>> THEN acc
    ELSE LET row_tuple == RowTuple(Head(rows))
         IN  ScanRows(Tail(rows), seen_rows \cup {row_tuple},
                 IF AllEmpty(row_tuple)
                 THEN [acc EXCEPT !.empty = @ + 1]
                 ELSE IF row_tuple \in seen_rows
                 THEN [acc EXCEPT !.dup = @ + 1]
                 ELSE acc)

DupPenaltyMutUncapped(duplicate_rows, row_count) ==
    Frac(duplicate_rows * 100, IF row_count > 1 THEN row_count ELSE 1)

\* min(duplicate_rows / max(row_count, 1) * 100, 30)
DupPenalty(duplicate_rows, row_count) ==
    FracMin(Frac(duplicate_rows * 100, IF row_count > 1 THEN row_count ELSE 1),
            Frac(30, 1))

AnalyzeSheet(sh) ==
    LET Quality(completeness_scores, dup_penalty) ==
            IF Len(completeness_scores) > 0
            THEN FracMax(FracSub(FracDivInt(FracSum(completeness_scores),
                                            Len(completeness_scores)),
                                 dup_penalty),
                         Frac(0, 1))
            ELSE Frac(0, 1)
        Analysis(scan, stats) ==
            IF \E c \in 1..Len(stats) : Raised(stats[c])
            THEN Raise("OverflowError")
            ELSE
            [sheet_name |-> sh.name,
             row_count |-> sh.row_count,
             col_count |-> sh.col_count,
             column_stats |-> stats,
             data_quality_score |->
                Quality([c \in 1..Len(stats) |-> stats[c].completeness],
                        DupPenalty(scan.dup, sh.row_count)),
             type_summary |-> CountTypes([c \in 1..Len(sh.columns) |->
                                             sh.columns[c].detected_type], <<>>),
             duplicate_rows |-> scan.dup,
             completely_empty_rows |-> scan.empty]
    IN  Analysis(ScanRows(sh.rows, {}, [empty |-> 0, dup |-> 0]),
                 [c \in 1..Len(sh.columns) |->
                     AnalyzeColumn(sh.columns[c],
                                   [r \in 1..Len(sh.rows) |->
                                       sh.rows[r][sh.columns[c].index + 1]])])

AnalyzeMutClockInTotals(import_result, now) ==
    [file_name |-> import_result.file_name,
     analysis_time |-> now,
     sheets |-> [i \in 1..Len(import_result.sheets) |->
                    AnalyzeSheet(import_result.sheets[i])],
     overall_quality_score |-> Frac(0, 1),
     total_rows |-> import_result.total_rows + now,
     total_columns |-> import_result.total_columns]

\* a mean that leaves out the sheets scoring 0
OverallQualityMutSkipZero(quality_scores) ==
    LET counted == SelectSeq(quality_scores, LAMBDA q : q # Frac(0, 1))
    IN  IF Len(counted) > 0
        THEN FracDivInt(FracSum(counted), Len(counted))
        ELSE Frac(0, 1)

\* result.overall_quality_score
OverallQuality(quality_scores) ==
    IF Len(quality_scores) > 0
    THEN FracDivInt(FracSum(quality_scores), Len(quality_scores))
    ELSE Frac(0, 1)

\* DataAnalyzer.analyze, called when the clock reads now
Analyze(import_result, now) ==
    LET Result(analyses_) ==
            IF \E i \in 1..Len(analyses_) : Raised(analyses_[i])
            THEN Raise("OverflowError")
            ELSE
            [file_name |-> import_result.file_name,
             analysis_time |-> now,
             sheets |-> analyses_,
             overall_quality_score |->
                OverallQuality([i \in 1..Len(analyses_) |->
                                   analyses_[i].data_quality_score]),
             total_rows |-> import_result.total_rows,
             total_columns |-> import_result.total_columns]
    IN  Result([i \in 1..Len(import_result.sheets) |->
                   AnalyzeSheet(import_result.sheets[i])])

(***************************************************************************)
(* Harness of the classifier: one value, classified once.                  *)
(***************************************************************************)
DetectIdle == value = NoneVal /\ detected = Pending
ResolveIdle == type_counts = <<>> /\ resolved = Pending
SheetIdle == ws_rows = <<>> /\ sheet = NoneVal /\ analysis = NoneVal
ColumnIdle == col_cells = <<>> /\ col_stats = NoneVal /\ col_dict = NoneVal
CallIdle == has_header = TRUE /\ max_rows = NoneVal
ImportIdle ==
    /\ source = "ok" /\ wb = <<>> /\ sheet_names = NoneVal
    /\ pc = "idle" /\ handle = "none" /\ idx = 0
    /\ result = NoneVal /\ returned = NoneVal /\ raised = "none"
    /\ clock = 0 /\ first_analysis = NoneVal /\ last_analysis = NoneVal

InitDetect ==
    /\ value \in InputValues
    /\ detected = Pending
    /\ ResolveIdle /\ SheetIdle /\ CallIdle /\ ImportIdle /\ ColumnIdle

Detect ==
    /\ detected = Pending
    /\ detected' = DetectCellType(value)
    /\ UNCHANGED <<value, resolveVars, sheetVars, callVars, importVars, columnVars>>

NextDetect == Detect

SpecDetect == InitDetect /\ [][NextDetect]_vars

(***************************************************************************)
(* Harness of the resolver: the histogram grows as _process_sheet grows    *)
(* it, one classified cell at a time, and is resolved at any point.        *)
(***************************************************************************)
InitResolve ==
    /\ type_counts = <<>>
    /\ resolved = Pending
    /\ DetectIdle /\ SheetIdle /\ CallIdle /\ ImportIdle /\ ColumnIdle

\* type_counts[cell_type.value] = type_counts.get(cell_type.value, 0) + 1
Count(t) ==
    /\ resolved = Pending
    /\ SumSeq(DictValues(type_counts)) < MaxCells
    /\ t \in DictKeys(type_counts) \/ Len(type_counts) < MaxKeys
    /\ type_counts' = DictInc(type_counts, t)
    /\ UNCHANGED <<resolved, detectVars, sheetVars, callVars, importVars, columnVars>>

Resolve ==
    /\ resolved = Pending
    /\ resolved' = ResolveColumnType(type_counts)
    /\ UNCHANGED <<type_counts, detectVars, sheetVars, callVars, importVars, columnVars>>

NextResolve == (\E t \in TypePool : Count(t)) \/ Resolve

SpecResolve == InitResolve /\ [][NextResolve]_vars

(***************************************************************************)
(* Harness of a direct call of _resolve_column_type: the argument is any   *)
(* dict from type names to counts of zero or more, in any key order.       *)
(***************************************************************************)
Histograms ==
    {h \in UNION {[1..k -> TypePool \X (0..MaxCount)] : k \in 0..MaxKeys} :
        \A i, j \in 1..Len(h) : i # j => h[i][1] # h[j][1]}

InitResolveCall ==
    /\ type_counts \in Histograms
    /\ resolved = Pending
    /\ DetectIdle /\ SheetIdle /\ CallIdle /\ ImportIdle /\ ColumnIdle

NextResolveCall == Resolve

SpecResolveCall == InitResolveCall /\ [][NextResolveCall]_vars

(***************************************************************************)
(* Harness of _process_sheet: one worksheet, processed once.               *)
(***************************************************************************)
InitSheet ==
    /\ ws_rows \in SeqsUpTo(RowPool, MaxSheetRows)
    /\ has_header \in BOOLEAN
    /\ max_rows \in RowLimits
    /\ sheet = NoneVal
    /\ analysis = NoneVal
    /\ DetectIdle /\ ResolveIdle /\ ImportIdle /\ ColumnIdle

Process ==
    /\ sheet = NoneVal
    /\ sheet' = ProcessSheet(ws_rows, "Sheet", has_header, max_rows)
    /\ UNCHANGED <<ws_rows, analysis, detectVars, resolveVars, callVars,
                   importVars, columnVars>>

\* DataAnalyzer._analyze_sheet on the SheetData just built
AnalyzeProcessed ==
    /\ sheet # NoneVal
    /\ analysis = NoneVal
    /\ analysis' = AnalyzeSheet(sheet)
    /\ UNCHANGED <<ws_rows, sheet, detectVars, resolveVars, callVars,
                   importVars, columnVars>>

NextSheet == Process \/ AnalyzeProcessed

SpecSheet == InitSheet /\ [][NextSheet]_vars

(***************************************************************************)
(* Harness of _analyze_column: one column of cells, imported as the only   *)
(* column of a sheet without header row and analysed once.                 *)
(***************************************************************************)
CellPool == {NoneVal, IntV(1), IntV(2), IntV(9), FloatV(3), BoolV(TRUE),
             StrV(<<"x">>), StrV(<<"$", "5">>)}

\* columns beyond the pool: the spec's outlier scenario, a value on the
\* outlier bound, percentages, a cell reading "nan", an int beyond the
\* range of a float, more than ten distinct values, Boolean columns with a
\* cell of another type, columns of times, e-mail addresses, URLs, phone
\* numbers
ScenarioColumns ==
    {<<IntV(1), IntV(2), IntV(3), IntV(4), IntV(100)>>,
     <<IntV(1), IntV(1), IntV(3), IntV(3), IntV(6)>>,
     <<StrV(<<"5", "0", "%">>), StrV(<<"2", "5", " ", "%">>)>>,
     <<StrV(<<"1", ",", "0", "0", "0">>), StrV(<<"-", "2", ".", "5">>)>>,
     <<StrV(<<"n", "a", "n">>), IntV(1)>>,
     <<IntV(2), StrV(<<"N", "a", "N">>), IntV(1)>>,
     <<StrV(<<"n", "a", "n">>)>>,
     <<BigIntV(309)>>,
     <<IntV(1), BigIntV(309)>>,
     [i \in 1..12 |-> StrV(<<LowerSeq[IF i = 12 THEN 11 ELSE i]>>)],
     [i \in 1..12 |-> IF i = 7 THEN NoneVal ELSE IntV(i % 11)],
     <<BoolV(TRUE), StrV(<<" ", "Y", "e", "s">>), StrV(<<"n", "o">>),
       BoolV(FALSE), IntV(1)>>,
     <<StrV(<<"t", "r", "u", "e">>), StrV(<<"T", "R", "U", "E", " ">>),
       StrV(<<"y", "e", "s">>), StrV(<<"f", "a", "l", "s", "e">>), DateV(1),
       NoneVal, Blank>>,
     <<BoolV(TRUE), BoolV(TRUE), BoolV(TRUE), BoolV(TRUE),
       StrV(<<"o", "n">>)>>,
     <<TimeV(1), TimeV(2)>>,
     <<StrV(<<"a", "@", "b", ".", "c", "d">>), NoneVal,
       StrV(<<" ", "x", "@", "y", "z", ".", "o", "r", "g">>)>>,
     <<StrV(<<"h", "t", "t", "p", ":", "/", "/", "x">>)>>,
     <<StrV(<<"1", "2", "3", "4", "5", "6", "7">>),
       StrV(<<"+", "1", " ", "2", "3", "4", "-", "5", "6", "7", "8">>)>>}

\* cells of the types without numbers: blanks, booleans, dates, text
PlainPool == {Blank, BoolV(FALSE), StrV(<<" ", "Y", "e", "s">>), DateV(2),
              DateTimeV(1), StrV(<<"a", "b", " ">>)}

ColumnInputs ==
    SeqsUpTo(CellPool, MaxColCells) \cup SeqsUpTo(PlainPool, MaxColCells)
    \cup ScenarioColumns

\* the SheetData _process_sheet builds from a worksheet of that one column
ColumnSheet(cells) ==
    ProcessSheet([r \in 1..Len(cells) |-> <<cells[r]>>], "Sheet", FALSE,
                 NoneVal)

InitColumn ==
    /\ col_cells \in ColumnInputs
    /\ col_stats = NoneVal
    /\ col_dict = NoneVal
    /\ DetectIdle /\ ResolveIdle /\ SheetIdle /\ CallIdle /\ ImportIdle

\* stats = self._analyze_column(col_info, col_cells)
AnalyzeColumnCall ==
    /\ col_cells # <<>>
    /\ col_stats = NoneVal
    /\ col_stats' = AnalyzeColumn(ColumnSheet(col_cells).columns[1],
                                  col_cells)
    /\ UNCHANGED <<col_cells, col_dict, detectVars, resolveVars, sheetVars,
                   callVars, importVars>>

\* stats.to_dict(), of the ColumnStats the call returned
ToDictCall ==
    /\ col_stats # NoneVal
    /\ ~Raised(col_stats)
    /\ col_dict = NoneVal
    /\ col_dict' = ToDict(col_stats)
    /\ UNCHANGED <<col_cells, col_stats, detectVars, resolveVars, sheetVars,
                   callVars, importVars>>

NextColumn == AnalyzeColumnCall \/ ToDictCall

SpecColumn == InitColumn /\ [][NextColumn]_vars

(***************************************************************************)
(* import_file and analyze.  The source is a path; when it holds a         *)
(* workbook, wb lists its worksheets in workbook order, each with the rows *)
(* iter_rows yields, or unreadable when reading its rows raises (the       *)
(* read-only workbook parses a sheet only when its rows are read).         *)
(***************************************************************************)
FilePath == <<"u", "p", "/", "b", "o", "o", "k", ".", "x", "l", "s", "x">>

NameSeq == <<"Sheet1", "Sheet2", "Sheet3", "Sheet4">>

SheetPool ==
    {[rows |-> <<>>, readable |-> TRUE],
     [rows |-> << <<StrV(<<"i", "d">>), Blank>>,
                  <<IntV(1), StrV(<<"a", "b">>), FloatV(3)>>,
                  <<IntV(1), StrV(<<"a", "b">>), FloatV(3)>>,
                  <<NoneVal>> >>,
      readable |-> TRUE],
     [rows |-> <<>>, readable |-> FALSE]}

Workbooks ==
    {[i \in 1..Len(c) |-> [name |-> NameSeq[i], rows |-> c[i].rows,
                           readable |-> c[i].readable]] :
        c \in UNION {[1..k -> SheetPool] : k \in 1..MaxSheets}}

BadSources == {"missing", "unreadable", "bad_extension", "not_zip",
               "not_workbook"}

\* what load_workbook raises for a source that is no workbook
LoadError(src) ==
    CASE src = "missing" -> "FileNotFoundError"
      [] src = "unreadable" -> "PermissionError"
      [] src = "bad_extension" -> "InvalidFileException"
      [] src = "not_zip" -> "BadZipFile"
      [] src = "not_workbook" -> "KeyError"

ListV(items) == [kind |-> "list", items |-> items]

FilterNames == {NameSeq[1], NameSeq[2], "Absent"}

Filters == {NoneVal} \cup {ListV(f) : f \in SeqsUpTo(FilterNames, MaxFilter)}

PipelineLimits == {NoneVal, IntV(1)}

\* wb.sheetnames
SheetNamesOf(book) == [i \in 1..Len(book) |-> book[i].name]

\* wb[sheet_name]
SheetOf(book, name) == book[CHOOSE i \in 1..Len(book) : book[i].name = name]

\* a filter that takes an empty list as "no sheet at all"
SheetsToProcessMutEmptyIsNothing(book, filter) ==
    IF filter # NoneVal THEN filter.items ELSE SheetNamesOf(book)

\* sheet_names if sheet_names else wb.sheetnames
SheetsToProcess(book, filter) ==
    IF filter # NoneVal /\ filter.items # <<>>
    THEN filter.items
    ELSE SheetNamesOf(book)

Init ==
    /\ \/ source = "ok" /\ wb \in Workbooks
       \/ source \in BadSources /\ wb = <<>>
    /\ sheet_names \in Filters
    /\ has_header \in BOOLEAN
    /\ max_rows \in PipelineLimits
    /\ pc = "start" /\ handle = "none" /\ idx = 0
    /\ result = NoneVal /\ returned = NoneVal /\ raised = "none"
    /\ clock = 0 /\ first_analysis = NoneVal /\ last_analysis = NoneVal
    /\ DetectIdle /\ ResolveIdle /\ SheetIdle /\ ColumnIdle

\* load_workbook raises: import_file ends there
LoadFails ==
    /\ pc = "start"
    /\ source # "ok"
    /\ raised' = LoadError(source)
    /\ pc' = "raised"
    /\ UNCHANGED <<source, wb, sheet_names, handle, idx, result, returned,
                   clock, first_analysis, last_analysis,
                   detectVars, resolveVars, sheetVars, callVars,
                   columnVars>>

\* wb = load_workbook(...); result = ImportResult(file_path)
LoadWorkbook ==
    /\ pc = "start"
    /\ source = "ok"
    /\ \E now \in clock..MaxClock :
          /\ clock' = now
          /\ result' = NewImportResult(FilePath, now)
    /\ handle' = "open"
    /\ idx' = 1
    /\ pc' = "loop"
    /\ UNCHANGED <<source, wb, sheet_names, returned, raised,
                   first_analysis, last_analysis,
                   detectVars, resolveVars, sheetVars, callVars,
                   columnVars>>

\* a requested name that the workbook lacks ends the import with KeyError
SkipAbsentMutRaise ==
    /\ pc = "loop"
    /\ idx <= Len(SheetsToProcess(wb, sheet_names))
    /\ SheetsToProcess(wb, sheet_names)[idx] \notin Range(SheetNamesOf(wb))
    /\ raised' = "KeyError"
    /\ pc' = "raised"
    /\ UNCHANGED <<source, wb, sheet_names, handle, idx, result, returned,
                   clock, first_analysis, last_analysis,
                   detectVars, resolveVars, sheetVars, callVars,
                   columnVars>>

\* if sheet_name not in wb.sheetnames: continue
SkipAbsent ==
    /\ pc = "loop"
    /\ idx <= Len(SheetsToProcess(wb, sheet_names))
    /\ SheetsToProcess(wb, sheet_names)[idx] \notin Range(SheetNamesOf(wb))
    /\ idx' = idx + 1
    /\ UNCHANGED <<source, wb, sheet_names, pc, handle, result, returned,
                   raised, clock, first_analysis, last_analysis,
                   detectVars, resolveVars, sheetVars, callVars,
                   columnVars>>

\* a loop that leaves out a sheet without rows
ImportSheetMutDropEmpty ==
    /\ pc = "loop"
    /\ idx <= Len(SheetsToProcess(wb, sheet_names))
    /\ LET name == SheetsToProcess(wb, sheet_names)[idx]
       IN  /\ name \in Range(SheetNamesOf(wb))
           /\ SheetOf(wb, name).readable
           /\ LET sheet_data == ProcessSheet(SheetOf(wb, name).rows, name,
                                             has_header, max_rows)
              IN  result' = IF SheetOf(wb, name).rows = <<>> THEN result
                            ELSE [result EXCEPT
                                     !.sheets = Append(@, sheet_data),
                                     !.total_rows = @ + sheet_data.row_count,
                                     !.total_columns = @ + sheet_data.col_count]
    /\ idx' = idx + 1
    /\ UNCHANGED <<source, wb, sheet_names, pc, handle, returned, raised,
                   clock, first_analysis, last_analysis,
                   detectVars, resolveVars, sheetVars, callVars,
                   columnVars>>

\* one iteration of the loop: _process_sheet, append, add up the totals
ImportSheet ==
    /\ pc = "loop"
    /\ idx <= Len(SheetsToProcess(wb, sheet_names))
    /\ LET name == SheetsToProcess(wb, sheet_names)[idx]
       IN  /\ name \in Range(SheetNamesOf(wb))
           /\ SheetOf(wb, name).readable
           /\ LET sheet_data == ProcessSheet(SheetOf(wb, name).rows, name,
                                             has_header, max_rows)
              IN  result' = [result EXCEPT
                     !.sheets = Append(@, sheet_data),
                     !.total_rows = @ + sheet_data.row_count,
                     !.total_columns = @ + sheet_data.col_count]
    /\ idx' = idx + 1
    /\ UNCHANGED <<source, wb, sheet_names, pc, handle, returned, raised,
                   clock, first_analysis, last_analysis,
                   detectVars, resolveVars, sheetVars, callVars,
                   columnVars>>

SheetFailsMutPartial ==
    /\ pc = "loop"
    /\ idx <= Len(SheetsToProcess(wb, sheet_names))
    /\ LET name == SheetsToProcess(wb, sheet_names)[idx]
       IN  /\ name \in Range(SheetNamesOf(wb))
           /\ ~SheetOf(wb, name).readable
    /\ raised' = "ParseError"
    /\ returned' = result
    /\ pc' = "raised"
    /\ UNCHANGED <<source, wb, sheet_names, handle, idx, result,
                   clock, first_analysis, last_analysis,
                   detectVars, resolveVars, sheetVars, callVars,
                   columnVars>>

\* reading the sheet's rows raises inside _process_sheet: the exception
\* leaves import_file from the loop, past wb.close() and the return
SheetFails ==
    /\ pc = "loop"
    /\ idx <= Len(SheetsToProcess(wb, sheet_names))
    /\ LET name == SheetsToProcess(wb, sheet_names)[idx]
       IN  /\ name \in Range(SheetNamesOf(wb))
           /\ ~SheetOf(wb, name).readable
    /\ raised' = "ParseError"
    /\ pc' = "raised"
    /\ UNCHANGED <<source, wb, sheet_names, handle, idx, result, returned,
                   clock, first_analysis, last_analysis,
                   detectVars, resolveVars, sheetVars, callVars,
                   columnVars>>

\* wb.close(); return result
CloseAndReturn ==
    /\ pc = "loop"
    /\ idx > Len(SheetsToProcess(wb, sheet_names))
    /\ handle' = "closed"
    /\ returned' = result
    /\ pc' = "returned"
    /\ UNCHANGED <<source, wb, sheet_names, idx, result, raised, clock,
                   first_analysis, last_analysis,
                   detectVars, resolveVars, sheetVars, callVars,
                   columnVars>>

\* an analyze that empties the sheet list of the ImportResult it was given
AnalyzeCallMutConsumesInput ==
    /\ pc = "returned"
    /\ \E now \in clock..MaxClock :
          /\ clock' = now
          /\ last_analysis' = Analyze(returned, now)
          /\ first_analysis' = IF first_analysis = NoneVal
                               THEN Analyze(returned, now)
                               ELSE first_analysis
    /\ returned' = [returned EXCEPT !.sheets = <<>>]
    /\ UNCHANGED <<source, wb, sheet_names, pc, handle, idx, result,
                   raised,
                   detectVars, resolveVars, sheetVars, callVars,
                   columnVars>>

\* DataAnalyzer().analyze(result), any number of times, the clock moving on
\* in between
AnalyzeCall ==
    /\ pc = "returned"
    /\ \E now \in clock..MaxClock :
          /\ clock' = now
          /\ last_analysis' = Analyze(returned, now)
          /\ first_analysis' = IF first_analysis = NoneVal
                               THEN Analyze(returned, now)
                               ELSE first_analysis
    /\ UNCHANGED <<source, wb, sheet_names, pc, handle, idx, result,
                   returned, raised,
                   detectVars, resolveVars, sheetVars, callVars,
                   columnVars>>

Next ==
    \/ LoadFails
    \/ LoadWorkbook
    \/ SkipAbsent
    \/ ImportSheet
    \/ SheetFails
    \/ CloseAndReturn
    \/ AnalyzeCall

Spec == Init /\ [][Next]_vars

(***************************************************************************)
(* Properties.                                                             *)
(***************************************************************************)
RECURSIVE SumOver(_, _)
\* the sum of the counts tc holds for the types in S
SumOver(tc, S) ==
    IF S = {} THEN 0
    ELSE LET t == CHOOSE x \in S : TRUE
         IN  DictGet(tc, t, 0) + SumOver(tc, S \ {t})

\* the types a histogram holds besides Empty
PresentTypes(tc) == DictKeys(tc) \ {"Empty"}

\* the types holding at least 80% of the non-empty total
DominantTypes(tc) ==
    {t \in PresentTypes(tc) :
        DictGet(tc, t, 0) * 5 >= SumOver(tc, PresentTypes(tc)) * 4}

\* the six steps of the resolver, read off the histogram as a map
SixStep(tc) ==
    LET present == PresentTypes(tc)
    IN  IF present = {} THEN "Empty"
        ELSE IF Cardinality(present) = 1 THEN CHOOSE t \in present : TRUE
        ELSE IF present = {"Integer", "Float"} THEN "Float"
        ELSE IF present = {"Date", "DateTime"} THEN "DateTime"
        ELSE IF DominantTypes(tc) # {} THEN CHOOSE t \in DominantTypes(tc) : TRUE
        ELSE "Mixed"

\* tc with its Empty entry dropped
WithoutEmpty(tc) == SelectSeq(tc, LAMBDA kv : kv[1] # "Empty")

\* C1: for a histogram of positive counts the resolver returns the result of
\* the six steps (Empty dropped; Empty if nothing is left; the single type;
\* Float for {Integer, Float}; DateTime for {Date, DateTime}; the type with
\* count*5 >= total*4, of which there is at most one; else Mixed), and the
\* number of Empty cells does not change the result: it is the result for
\* the histogram without its Empty entry, whatever that entry counted.
C1_ResolverSixSteps ==
    resolved # Pending =>
        /\ \A i \in 1..Len(type_counts) : type_counts[i][2] > 0
        /\ resolved = SixStep(type_counts)
        /\ Cardinality(PresentTypes(type_counts)) >= 2
              => Cardinality(DominantTypes(type_counts)) <= 1
        /\ ResolveColumnType(WithoutEmpty(type_counts)) = resolved

\* a column of exactly 80% Text beside another type and Empty cells
C1_Witness ==
    /\ resolved = "Text"
    /\ "Empty" \in DictKeys(type_counts)
    /\ Cardinality(PresentTypes(type_counts)) = 2
    /\ DictGet(type_counts, "Text", 0) * 5
          = SumOver(type_counts, PresentTypes(type_counts)) * 4

\* the string rules in their priority order, each on the stripped string
RuleMatches(r, s) ==
    CASE r = 1 -> s = <<>>
      [] r = 2 -> Lower(s) \in BooleanWords
      [] r = 3 -> MatchesPercentage(s)
      [] r = 4 -> MatchesCurrency(s)
      [] r = 5 -> MatchesEmail(s)
      [] r = 6 -> MatchesURL(s)
      [] r = 7 -> MatchesPhone(s)
      [] r = 8 -> IntParse(RemoveChar(s, ",")) = "ok"
      [] r = 9 -> FloatParse(RemoveChar(s, ",")) = "ok"
      [] OTHER -> TRUE

RuleType == <<"Empty", "Boolean", "Percentage", "Currency", "Email", "URL",
              "Phone", "Integer", "Float", "Text">>

RuleCount == Len(RuleType)

MatchingRules(s) == {r \in 1..RuleCount : RuleMatches(r, s)}

\* C2: a string is classified by the first rule, in the fixed priority
\* order, that its stripped form matches; a string matching several rules
\* gets the type of the earliest.
C2_FirstMatchingRule ==
    (detected # Pending /\ value.kind = "str") =>
        LET rules == MatchingRules(Strip(value.s))
        IN  detected = RuleType[CHOOSE r \in rules : \A q \in rules : r <= q]

\* a digit string that the phone rule and both numeric rules match
C2_Witness ==
    /\ value.kind = "str"
    /\ detected = "Phone"
    /\ {7, 8, 9} \subseteq MatchingRules(Strip(value.s))

\* C3: the classifier returns exactly one DataType for every value and that
\* type is never Mixed (an exception would show as a result outside
\* DataType).
C3_ClassifierTotal ==
    detected # Pending => detected \in DataType \ {"Mixed"}

\* a value of none of the classes the classifier tests for
C3_Witness == value.kind = "other" /\ detected = "Text"

\* row padded to n cells, written out cell by cell
PaddedCopy(row, n) == [c \in 1..n |-> IF c <= Len(row) THEN row[c] ELSE NoneVal]

\* the worksheet rows that become data rows of the sheet harness
HarnessDataRows ==
    LET rows == IF has_header /\ ws_rows # <<>> THEN Tail(ws_rows) ELSE ws_rows
    IN  IF max_rows = NoneVal \/ max_rows.n >= Len(rows) THEN rows
        ELSE SubSeq(rows, 1, max_rows.n)

\* C4: every stored row has exactly col_count cells, a shorter row being
\* padded on the right with None; headers and columns have col_count
\* entries and columns[i].index = i.
C4_Rectangular ==
    sheet # NoneVal =>
        /\ Len(sheet.rows) = sheet.row_count
        /\ Len(sheet.rows) = Len(HarnessDataRows)
        /\ \A r \in 1..Len(sheet.rows) :
              /\ Len(sheet.rows[r]) = sheet.col_count
              /\ sheet.rows[r] = PaddedCopy(HarnessDataRows[r], sheet.col_count)
        /\ Len(sheet.headers) = sheet.col_count
        /\ Len(sheet.columns) = sheet.col_count
        /\ \A c \in 1..Len(sheet.columns) : sheet.columns[c].index = c - 1

\* stored rows of differing original lengths, one of them padded
C4_Witness ==
    /\ sheet # NoneVal
    /\ sheet.row_count >= 2
    /\ \E r, q \in 1..Len(HarnessDataRows) :
          /\ Len(HarnessDataRows[r]) < sheet.col_count
          /\ Len(HarnessDataRows[q]) = sheet.col_count

\* the cells of column c (1-based) of a SheetData, in row order
ColumnCells(sd, c) == [r \in 1..Len(sd.rows) |-> sd.rows[r][c]]

Filled(cells) == SelectSeq(cells, LAMBDA v : DetectCellType(v) # "Empty")

MinOf(a, b) == IF a <= b THEN a ELSE b

\* C5: per column, total_count = non_empty_count + empty_count = the sum of
\* the histogram = row_count; empty_count is the histogram's Empty count;
\* unique_count <= non_empty_count; and the samples are the first
\* min(5, non_empty_count) non-empty cells in row order.
C5_ColumnCounts ==
    sheet # NoneVal =>
        \A c \in 1..Len(sheet.columns) :
            LET col == sheet.columns[c]
                filled == Filled(ColumnCells(sheet, c))
            IN  /\ col.total_count = col.non_empty_count + col.empty_count
                /\ col.total_count = SumSeq(DictValues(col.type_counts))
                /\ col.total_count = sheet.row_count
                /\ col.empty_count = DictGet(col.type_counts, "Empty", 0)
                /\ col.non_empty_count = Len(filled)
                /\ col.unique_count <= col.non_empty_count
                /\ Len(col.sample_values) = MinOf(5, col.non_empty_count)
                /\ \A k \in 1..Len(col.sample_values) :
                      col.sample_values[k] = filled[k]

\* a column with more than five non-empty cells, some of them equal, beside
\* a column with empty cells
C5_Witness ==
    /\ sheet # NoneVal
    /\ \E c, e \in 1..Len(sheet.columns) :
          /\ sheet.columns[c].non_empty_count > 5
          /\ Len(sheet.columns[c].sample_values) = 5
          /\ sheet.columns[c].unique_count < sheet.columns[c].non_empty_count
          /\ sheet.columns[e].empty_count > 0
          /\ sheet.columns[e].non_empty_count > 0

C7_HandleClosedAtEnd ==
    pc \in {"returned", "raised"} => handle # "open"

\* the exceptions load_workbook and the reading of a sheet let through
LoaderErrors == {"FileNotFoundError", "PermissionError",
                 "InvalidFileException", "BadZipFile", "KeyError",
                 "ParseError"}

C9_NoBlankHeader ==
    (sheet # NoneVal /\ has_header) =>
        \A c \in 1..Len(sheet.headers) :
            /\ Strip(sheet.headers[c]) # <<>>
            /\ (\/ c > Len(ws_rows[1])
                \/ DetectCellType(ws_rows[1][c]) = "Empty")
                  => sheet.headers[c] = ColumnPrefix \o get_column_letter(c)

\* C10: for a non-empty sheet of R rows and no max_rows: with has_header
\* the first row is not stored and row_count = R - 1; without it every row
\* is stored, row_count = R, and every header is the generated Column_
\* label, none taken from the first row.
C10_HeaderRowSplit ==
    (sheet # NoneVal /\ ws_rows # <<>> /\ max_rows = NoneVal) =>
        LET R == Len(ws_rows)
            off == IF has_header THEN 1 ELSE 0
        IN  /\ sheet.row_count = R - off
            /\ Len(sheet.rows) = R - off
            /\ \A r \in 1..(R - off) :
                  sheet.rows[r] = PaddedCopy(ws_rows[r + off], sheet.col_count)
            /\ ~has_header =>
                  \A c \in 1..Len(sheet.headers) :
                      sheet.headers[c] = ColumnPrefix \o get_column_letter(c)

\* a header row of labels followed by data rows
C10_Witness ==
    /\ sheet # NoneVal
    /\ has_header
    /\ max_rows = NoneVal
    /\ Len(ws_rows) >= 3
    /\ Len(ws_rows[1]) > 0
    /\ sheet.row_count = Len(ws_rows) - 1
    /\ sheet.headers[1] = <<"a", "b">>

\* C11: with max_rows given, the sheet keeps exactly the first
\* min(max_rows, D) data rows in their order, D being the number of rows left
\* after the header row is taken off; row_count and every column's
\* total_count are that number; the header row is not counted against the
\* limit and still supplies the labels.
C11_RowLimit ==
    (sheet # NoneVal /\ ws_rows # <<>> /\ max_rows # NoneVal) =>
        LET data == IF has_header THEN Tail(ws_rows) ELSE ws_rows
            kept == MinOf(max_rows.n, Len(data))
        IN  /\ sheet.row_count = kept
            /\ Len(sheet.rows) = kept
            /\ \A r \in 1..kept :
                  sheet.rows[r] = PaddedCopy(data[r], sheet.col_count)
            /\ \A c \in 1..Len(sheet.columns) :
                  sheet.columns[c].total_count = kept
            /\ has_header =>
                  \A c \in 1..Len(ws_rows[1]) :
                      ws_rows[1][c] # NoneVal =>
                          sheet.headers[c] = PyStr(ws_rows[1][c])

\* a header row and four data rows, cut to two
C11_Witness ==
    /\ sheet # NoneVal
    /\ has_header
    /\ max_rows = IntV(2)
    /\ Len(ws_rows) = 5
    /\ Len(ws_rows[1]) > 0
    /\ sheet.row_count = 2
    /\ sheet.rows[2] = PaddedCopy(ws_rows[3], sheet.col_count)

\* the names import_file goes through that the workbook has, in the order
\* it goes through them
PresentNames ==
    SelectSeq(SheetsToProcess(wb, sheet_names),
              LAMBDA n : n \in Range(SheetNamesOf(wb)))

\* C12: with a non-empty list of sheet names requested, a name the workbook
\* lacks never makes import_file fail (a failure with the workbook loaded is
\* always on a sheet the workbook has); the result holds exactly the
\* requested names that exist, in the order requested, and total_rows /
\* total_columns are the sums of row_count / col_count over those sheets.
C12_AbsentNamesSkipped ==
    (sheet_names # NoneVal /\ sheet_names.items # <<>>) =>
        /\ (pc = "raised" /\ source = "ok") =>
              /\ raised # "KeyError"
              /\ sheet_names.items[idx] \in Range(SheetNamesOf(wb))
        /\ pc = "returned" =>
              /\ [i \in 1..Len(returned.sheets) |-> returned.sheets[i].name]
                    = PresentNames
              /\ PresentNames =
                    SelectSeq(sheet_names.items,
                              LAMBDA n : \E i \in 1..Len(wb) : wb[i].name = n)
              /\ returned.total_rows =
                    SumSeq([i \in 1..Len(returned.sheets) |->
                               returned.sheets[i].row_count])
              /\ returned.total_columns =
                    SumSeq([i \in 1..Len(returned.sheets) |->
                               returned.sheets[i].col_count])

\* an absent name requested before a sheet that has data
C12_Witness ==
    /\ pc = "returned"
    /\ sheet_names # NoneVal
    /\ Len(sheet_names.items) = 2
    /\ sheet_names.items[1] \notin Range(SheetNamesOf(wb))
    /\ sheet_names.items[2] = NameSeq[2]
    /\ Len(returned.sheets) = 1
    /\ returned.sheets[1].name = NameSeq[2]
    /\ returned.total_rows > 0

\* C13: a sheet with no rows at all is imported without error, as a
\* SheetData with row_count = 0, col_count = 0 and no columns, headers or
\* rows, and it takes its place in the ImportResult's list of sheets.
C13_EmptySheetImported ==
    /\ (pc = "raised" /\ source = "ok") =>
          ~SheetOf(wb, SheetsToProcess(wb, sheet_names)[idx]).readable
    /\ pc = "returned" =>
          /\ Len(returned.sheets) = Len(PresentNames)
          /\ \A i \in 1..Len(PresentNames) :
                SheetOf(wb, PresentNames[i]).rows = <<>> =>
                    returned.sheets[i] =
                        [name |-> PresentNames[i], columns |-> <<>>,
                         rows |-> <<>>, headers |-> <<>>,
                         row_count |-> 0, col_count |-> 0]

\* an empty sheet imported after a sheet with data
C13_Witness ==
    /\ pc = "returned"
    /\ Len(returned.sheets) = 2
    /\ returned.sheets[1].row_count > 0
    /\ SheetOf(wb, returned.sheets[2].name).rows = <<>>
    /\ returned.sheets[2].col_count = 0

\* the rows of the analysed sheet as fingerprints: the cells stringified,
\* None as the empty string
Fingerprints ==
    [r \in 1..Len(sheet.rows) |->
        [c \in 1..Len(sheet.rows[r]) |->
            IF sheet.rows[r][c] = NoneVal THEN <<>> ELSE PyStr(sheet.rows[r][c])]]

EmptyRowSet ==
    {r \in 1..Len(Fingerprints) :
        \A c \in 1..Len(Fingerprints[r]) : Fingerprints[r][c] = <<>>}

RepeatRowSet ==
    {r \in 1..Len(Fingerprints) :
        /\ r \notin EmptyRowSet
        /\ \E q \in 1..(r - 1) : Fingerprints[q] = Fingerprints[r]}

\* C14: completely_empty_rows is the number of rows whose fingerprint is all
\* empty strings; duplicate_rows is the number of not completely empty rows
\* whose fingerprint equals that of an earlier row, so that a fingerprint
\* occurring k times contributes k - 1; completely empty rows are never
\* counted as duplicates; duplicate_rows + completely_empty_rows <= row_count.
C14_RowFingerprints ==
    analysis # NoneVal =>
        LET full == (1..Len(Fingerprints)) \ EmptyRowSet
        IN  /\ analysis.completely_empty_rows = Cardinality(EmptyRowSet)
            /\ analysis.duplicate_rows = Cardinality(RepeatRowSet)
            /\ analysis.duplicate_rows =
                  Cardinality(full) - Cardinality({Fingerprints[r] : r \in full})
            /\ analysis.duplicate_rows + analysis.completely_empty_rows
                  <= analysis.row_count

\* a fingerprint occurring three times among rows of which two are
\* completely empty
C14_Witness ==
    /\ analysis # NoneVal
    /\ analysis.completely_empty_rows = 2
    /\ \E a, b, c \in RepeatRowSet \cup {1} :
          /\ a < b /\ b < c
          /\ Fingerprints[a] = Fingerprints[b]
          /\ Fingerprints[b] = Fingerprints[c]
          /\ a \notin EmptyRowSet
    /\ analysis.duplicate_rows >= 2

\* C15: for every analysed column, completeness is
\* non_empty_count / total_count * 100 when total_count > 0 and 0 when
\* total_count = 0; it lies in [0, 100]; it is 100 exactly when the column
\* has at least one row and no empty cell; a column whose cells are all
\* empty has the type Empty and completeness 0.
C15_Completeness ==
    analysis # NoneVal =>
        \A c \in 1..Len(analysis.column_stats) :
            LET st == analysis.column_stats[c]
                cells == ColumnCells(sheet, c)
                filled == Filled(cells)
            IN  /\ st.total_count = Len(cells)
                /\ st.non_empty_count = Len(filled)
                /\ st.non_empty_count + st.empty_count = st.total_count
                /\ Len(cells) > 0 =>
                      st.completeness.n * Len(cells)
                          = Len(filled) * 100 * st.completeness.d
                /\ Len(cells) = 0 => st.completeness = Frac(0, 1)
                /\ FracLe(Frac(0, 1), st.completeness)
                /\ FracLe(st.completeness, Frac(100, 1))
                /\ (st.completeness = Frac(100, 1))
                      <=> (Len(cells) > 0 /\ Len(filled) = Len(cells))
                /\ Len(filled) = 0 =>
                      /\ st.data_type = "Empty"
                      /\ st.completeness = Frac(0, 1)

\* a full column beside a column that is partly empty and one that is
\* entirely empty
C15_Witness ==
    /\ analysis # NoneVal
    /\ \E a, b, c \in 1..Len(analysis.column_stats) :
          /\ analysis.column_stats[a].completeness = Frac(100, 1)
          /\ analysis.column_stats[b].completeness = Frac(200, 3)
          /\ analysis.column_stats[c].completeness = Frac(0, 1)
          /\ analysis.column_stats[c].total_count = 3

\* C16: data_quality_score is
\* max(0, mean column completeness - min(duplicate_rows / max(row_count, 1)
\* * 100, 30)) for a sheet with at least one column and 0 for a sheet
\* without columns; it lies in [0, 100]; the duplicate penalty never exceeds
\* 30; a sheet whose columns are all fully complete and that has no
\* duplicate row scores exactly 100.
C16_QualityScore ==
    analysis # NoneVal =>
        LET ncols == Len(sheet.columns)
            nrows == Len(sheet.rows)
            compl == [c \in 1..ncols |->
                         IF nrows > 0
                         THEN Frac(Len(Filled(ColumnCells(sheet, c))) * 100, nrows)
                         ELSE Frac(0, 1)]
            dups == Cardinality(RepeatRowSet)
            raw == Frac(dups * 100, IF nrows >= 1 THEN nrows ELSE 1)
            penalty == IF FracLe(raw, Frac(30, 1)) THEN raw ELSE Frac(30, 1)
            net == FracSub(FracDivInt(FracSum(compl), ncols), penalty)
            score == analysis.data_quality_score
        IN  /\ ncols = 0 => score = Frac(0, 1)
            /\ ncols > 0 =>
                  /\ score = IF FracLe(Frac(0, 1), net) THEN net ELSE Frac(0, 1)
                  /\ FracLe(penalty, Frac(30, 1))
                  /\ FracLe(FracSub(FracDivInt(FracSum(compl), ncols), score),
                            Frac(30, 1))
            /\ FracLe(Frac(0, 1), score)
            /\ FracLe(score, Frac(100, 1))
            /\ (/\ ncols > 0
                /\ dups = 0
                /\ \A c \in 1..ncols : compl[c] = Frac(100, 1))
                  => score = Frac(100, 1)

\* a sheet whose duplicates exceed 30% of its rows, the penalty being held
\* at 30
C16_Witness ==
    /\ analysis # NoneVal
    /\ analysis.row_count = 4
    /\ analysis.duplicate_rows = 3
    /\ analysis.col_count = 2
    /\ analysis.data_quality_score = Frac(20, 1)

\* C17: overall_quality_score is the arithmetic mean of the
\* data_quality_score of every sheet of the ImportResult, a sheet without
\* rows and columns entering the mean with the score 0, and is 0 for an
\* ImportResult without sheets; it lies in [0, 100].
C17_OverallQuality ==
    last_analysis # NoneVal =>
        LET n == Len(last_analysis.sheets)
            overall == last_analysis.overall_quality_score
            total == FracSum([i \in 1..n |->
                                 last_analysis.sheets[i].data_quality_score])
        IN  /\ n = Len(returned.sheets)
            /\ n = 0 => overall = Frac(0, 1)
            /\ n > 0 => overall.n * total.d * n = total.n * overall.d
            /\ \A i \in 1..n :
                  (returned.sheets[i].row_count = 0
                   /\ returned.sheets[i].col_count = 0)
                      => last_analysis.sheets[i].data_quality_score = Frac(0, 1)
            /\ FracLe(Frac(0, 1), overall)
            /\ FracLe(overall, Frac(100, 1))

\* a sheet with data and a sheet without rows: the mean is half the score
\* of the first
C17_Witness ==
    /\ last_analysis # NoneVal
    /\ Len(last_analysis.sheets) = 2
    /\ returned.sheets[2].col_count = 0
    /\ FracLe(Frac(1, 1), last_analysis.sheets[1].data_quality_score)
    /\ last_analysis.overall_quality_score =
          FracDivInt(last_analysis.sheets[1].data_quality_score, 2)

\* x == y and x <= y on floats; every comparison with nan is False
NumEq(x, y) == ~IsNan(x) /\ ~IsNan(y) /\ x = y
NumLe(x, y) == NumLt(x, y) \/ NumEq(x, y)

\* x is the k-th smallest (k from 1) of the values of nums
IsKth(nums, x, k) ==
    /\ \E i \in 1..Len(nums) : nums[i] = x
    /\ Cardinality({i \in 1..Len(nums) : NumLt(nums[i], x)}) < k
    /\ k <= Cardinality({i \in 1..Len(nums) : NumLe(nums[i], x)})

\* the cells of the analysed column that coerce to a number, as numbers
ColumnNums ==
    SelectSeq([i \in 1..Len(col_cells) |-> ToNumeric(col_cells[i])],
              LAMBDA x : x # NoneVal /\ ~Raised(x))

\* the column harness has analysed a column of a numeric-family type
NumericColumnAnalysed ==
    /\ col_stats # NoneVal
    /\ ~Raised(col_stats)
    /\ col_stats.data_type \in NumericFamily

\* C18: in a numeric-family column the statistics are over the coerced
\* values only (native numbers as they are, native booleans and values that
\* do not parse as a number left out); over N >= 1 such values min and max
\* are the smallest and the largest, sum the total, mean = sum / N, median
\* the middle value of the sorted values for odd N and the mean of the two
\* middle values for even N; hence min <= median <= max and
\* min <= mean <= max.
C18_NumericStats ==
    (NumericColumnAnalysed /\ Len(ColumnNums) >= 1) =>
        LET nums == ColumnNums
            N == Len(nums)
            st == col_stats
        IN  /\ \A i \in 1..Len(col_cells) :
                  /\ col_cells[i].kind \in {"bool", "none"}
                        => ToNumeric(col_cells[i]) = NoneVal
                  /\ col_cells[i].kind = "float"
                        => ToNumeric(col_cells[i]) = Frac(col_cells[i].h, 2)
            /\ IsKth(nums, st.min_val, 1)
            /\ IsKth(nums, st.max_val, N)
            /\ st.sum_val = NumSum(Frac(0, 1), nums)
            /\ st.mean_val = NumDivInt(st.sum_val, N)
            /\ N % 2 = 1 => IsKth(nums, st.median_val, (N + 1) \div 2)
            /\ N % 2 = 0 =>
                  \E a, b \in Range(nums) :
                      /\ IsKth(nums, a, N \div 2)
                      /\ IsKth(nums, b, (N \div 2) + 1)
                      /\ st.median_val = NumDivInt(NumAdd(a, b), 2)
            /\ NumLe(st.min_val, st.median_val)
            /\ NumLe(st.median_val, st.max_val)
            /\ NumLe(st.min_val, st.mean_val)
            /\ NumLe(st.mean_val, st.max_val)

C20_DegenerateNeverRaises ==
    col_stats # NoneVal =>
        /\ ~Raised(col_stats)
        /\ (col_stats.data_type \in NumericFamily /\ Len(ColumnNums) = 0) =>
              /\ col_stats.min_val = NoneVal
              /\ col_stats.max_val = NoneVal
              /\ col_stats.sum_val = NoneVal
              /\ col_stats.mean_val = NoneVal
              /\ col_stats.median_val = NoneVal
              /\ col_stats.std_dev = NoneVal
              /\ col_stats.outlier_count = 0
        /\ (col_stats.data_type \in NumericFamily /\ Len(ColumnNums) = 1) =>
              /\ col_stats.std_dev = Frac(0, 1)
              /\ col_stats.min_val = ColumnNums[1]
              /\ col_stats.max_val = ColumnNums[1]
              /\ col_stats.mean_val = ColumnNums[1]
              /\ col_stats.median_val = ColumnNums[1]

\* the non-empty cells of the analysed column as strings, in row order
ColumnStrings ==
    LET filled == Filled(col_cells)
    IN  [i \in 1..Len(filled) |-> PyStr(filled[i])]

Occurrences(strs, x) == Cardinality({i \in 1..Len(strs) : strs[i] = x})

FirstSeen(strs, x) == CHOOSE i \in 1..Len(strs) :
                          /\ strs[i] = x
                          /\ \A j \in 1..(i - 1) : strs[j] # x

\* C21: top_values lists min(10, number of distinct non-empty strings)
\* distinct strings of the column, each with the number of cells holding
\* it; the counts never increase along the list; no unlisted string has
\* more cells than a listed one; and of two strings with equal counts the
\* one first encountered earlier is listed first, and is the one kept when
\* the list is cut.
C21_TopValues ==
    (col_stats # NoneVal /\ ~Raised(col_stats)) =>
        LET strs == ColumnStrings
            top == col_stats.top_values
            listed == {top[i][1] : i \in 1..Len(top)}
        IN  /\ Len(top) = MinOf(10, Cardinality(Range(strs)))
            /\ Cardinality(listed) = Len(top)
            /\ listed \subseteq Range(strs)
            /\ \A i \in 1..Len(top) : top[i][2] = Occurrences(strs, top[i][1])
            /\ \A i, j \in 1..Len(top) :
                  i < j => /\ top[i][2] >= top[j][2]
                           /\ top[i][2] = top[j][2] =>
                                 FirstSeen(strs, top[i][1])
                                     < FirstSeen(strs, top[j][1])
            /\ \A x \in listed : \A y \in Range(strs) \ listed :
                  /\ Occurrences(strs, x) >= Occurrences(strs, y)
                  /\ Occurrences(strs, x) = Occurrences(strs, y) =>
                        FirstSeen(strs, x) < FirstSeen(strs, y)

\* a column of more than ten distinct strings: the most frequent one was
\* encountered last, and the string left out has as many cells as the last
\* one listed
C21_Witness ==
    /\ col_stats # NoneVal /\ ~Raised(col_stats)
    /\ LET strs == ColumnStrings
           top == col_stats.top_values
       IN  /\ Cardinality(Range(strs)) > 10
           /\ Len(top) = 10
           /\ top[1][2] > top[2][2]
           /\ FirstSeen(strs, top[1][1]) > FirstSeen(strs, top[2][1])
           /\ \E y \in Range(strs) :
                 /\ \A i \in 1..10 : top[i][1] # y
                 /\ Occurrences(strs, y) = top[10][2]

\* the cells of the analysed column that count as true: the native True and
\* the strings reading true or yes
TrueCells ==
    {i \in 1..Len(col_cells) :
        \/ col_cells[i] = BoolV(TRUE)
        \/ /\ col_cells[i].kind = "str"
           /\ Lower(Strip(col_cells[i].s)) \in {<<"t", "r", "u", "e">>,
                                                <<"y", "e", "s">>}}

NonEmptyCells == {i \in 1..Len(col_cells) : DetectCellType(col_cells[i]) # "Empty"}

\* C22: in a Boolean column true_count is the number of cells that are the
\* native True or a string reading true or yes (trimmed, any case),
\* false_count is the number of all other non-empty cells, empty cells are
\* counted in neither, and true_count + false_count = non_empty_count.
C22_BooleanCounts ==
    (col_stats # NoneVal /\ ~Raised(col_stats)
     /\ col_stats.data_type = "Boolean") =>
        /\ col_stats.true_count = Cardinality(TrueCells)
        /\ col_stats.false_count = Cardinality(NonEmptyCells \ TrueCells)
        /\ col_stats.true_count + col_stats.false_count
              = col_stats.non_empty_count

\* a Boolean column with true and false cells, a cell that is neither a
\* bool nor a string, a string true only after trimming, and empty cells
C22_Witness ==
    /\ col_stats # NoneVal /\ ~Raised(col_stats)
    /\ col_stats.data_type = "Boolean"
    /\ col_stats.true_count > 0
    /\ col_stats.false_count > 0
    /\ col_stats.empty_count > 0
    /\ \E i \in 1..Len(col_cells) : col_cells[i].kind \notin {"none", "bool", "str"}
    /\ \E i \in TrueCells : /\ col_cells[i].kind = "str"
                            /\ col_cells[i].s # Lower(Strip(col_cells[i].s))

\* the type-specific bundles of the analysed column still hold the values
\* the constructor gave them
NumericUntouched ==
    /\ col_stats.min_val = NoneVal /\ col_stats.max_val = NoneVal
    /\ col_stats.sum_val = NoneVal /\ col_stats.mean_val = NoneVal
    /\ col_stats.median_val = NoneVal /\ col_stats.std_dev = NoneVal
    /\ col_stats.has_outliers = FALSE /\ col_stats.outlier_count = 0

TextUntouched ==
    /\ col_stats.min_length = NoneVal /\ col_stats.max_length = NoneVal
    /\ col_stats.avg_length = NoneVal

BooleanUntouched == col_stats.true_count = 0 /\ col_stats.false_count = 0

DateUntouched == col_stats.earliest = NoneVal /\ col_stats.latest = NoneVal

\* C23: numeric statistics are set only in Integer, Float, Currency and
\* Percentage columns, text lengths only in Text, Email, URL and Phone
\* columns, true/false counts only in Boolean columns, earliest/latest only
\* in Date and DateTime columns; every other bundle keeps its initial
\* values, and in Time, Empty and Mixed columns all four do.  A column with
\* a non-empty cell has the bundle of its own family set.
C23_FamilyStatsOnly ==
    (col_stats # NoneVal /\ ~Raised(col_stats)) =>
        LET t == col_stats.data_type
        IN  /\ t \notin {"Integer", "Float", "Currency", "Percentage"}
                  => NumericUntouched
            /\ t \notin {"Text", "Email", "URL", "Phone"} => TextUntouched
            /\ t # "Boolean" => BooleanUntouched
            /\ t \notin {"Date", "DateTime"} => DateUntouched
            /\ t \in {"Time", "Empty", "Mixed"} =>
                  /\ NumericUntouched /\ TextUntouched
                  /\ BooleanUntouched /\ DateUntouched
            /\ t \in {"Text", "Email", "URL", "Phone"} => ~TextUntouched
            /\ t = "Boolean" => ~BooleanUntouched
            /\ t \in {"Date", "DateTime"} => ~DateUntouched

\* a Mixed column holding a boolean, a date and a text cell
C23_Witness ==
    /\ col_stats # NoneVal /\ ~Raised(col_stats)
    /\ col_stats.data_type = "Mixed"
    /\ \E i, j, k \in 1..Len(col_cells) :
          /\ col_cells[i].kind = "bool"
          /\ col_cells[j].kind = "date"
          /\ col_cells[k].kind = "str" /\ Strip(col_cells[k].s) # <<>>

\* C24: the serialized form of a ColumnStats holds the bundle of the
\* column's family: numeric_stats for Integer, Float, Currency and
\* Percentage, text_stats with the column's min, max and (rounded) average
\* length for Text, Email, URL and Phone, boolean_stats for Boolean,
\* date_stats for Date and DateTime.
C24_SerializedBundles ==
    col_dict # NoneVal =>
        LET t == col_stats.data_type
        IN  /\ t \in {"Integer", "Float", "Currency", "Percentage"}
                  => "numeric_stats" \in DictKeys(col_dict)
            /\ t = "Boolean" => "boolean_stats" \in DictKeys(col_dict)
            /\ t \in {"Date", "DateTime"} => "date_stats" \in DictKeys(col_dict)
            /\ t \in {"Text", "Email", "URL", "Phone"} =>
                  /\ "text_stats" \in DictKeys(col_dict)
                  /\ LET text == DictGet(col_dict, "text_stats", <<>>)
                     IN  /\ DictGet(text, "min_length", NoneVal)
                               = col_stats.min_length
                         /\ DictGet(text, "max_length", NoneVal)
                               = col_stats.max_length
                         /\ col_stats.min_length # NoneVal

\* the ColumnStats st carries the header, type and base counts of the
\* ColumnInfo col
CopiedFrom(st, col) ==
    /\ st.header = col.header
    /\ st.data_type = col.detected_type
    /\ st.total_count = col.total_count
    /\ st.non_empty_count = col.non_empty_count
    /\ st.empty_count = col.empty_count
    /\ st.unique_count = col.unique_count

\* the AnalysisResult res follows the ImportResult imp sheet by sheet and
\* column by column
Follows(res, imp) ==
    /\ res.total_rows = imp.total_rows
    /\ res.total_columns = imp.total_columns
    /\ Len(res.sheets) = Len(imp.sheets)
    /\ \A i \in 1..Len(imp.sheets) :
          /\ res.sheets[i].sheet_name = imp.sheets[i].name
          /\ res.sheets[i].row_count = imp.sheets[i].row_count
          /\ res.sheets[i].col_count = imp.sheets[i].col_count
          /\ Len(res.sheets[i].column_stats) = Len(imp.sheets[i].columns)
          /\ \A c \in 1..Len(imp.sheets[i].columns) :
                CopiedFrom(res.sheets[i].column_stats[c],
                           imp.sheets[i].columns[c])

\* C25: after import_file has returned and analyze has run any number of
\* times, the ImportResult is still the one import_file built (sheets,
\* rows, headers, counts, histograms, samples), and every AnalysisResult has
\* one SheetAnalysis per sheet and one ColumnStats per column, in the
\* input's order, with the totals and the base counts copied.
C25_InputUntouched ==
    pc = "returned" =>
        /\ returned = result
        /\ first_analysis # NoneVal => Follows(first_analysis, returned)
        /\ last_analysis # NoneVal => Follows(last_analysis, returned)

\* analyze has run at two clock readings on an import of two sheets of
\* different widths, one of them with several columns
C25_Witness ==
    /\ pc = "returned"
    /\ last_analysis # NoneVal
    /\ first_analysis.analysis_time # last_analysis.analysis_time
    /\ Len(returned.sheets) = 2
    /\ returned.sheets[1].col_count > 1
    /\ returned.sheets[2].col_count # returned.sheets[1].col_count
    /\ returned.sheets[1].row_count > 0

\* C26: for every dict from types to counts of zero or more, the empty dict
\* and dicts with some or all counts zero included, _resolve_column_type
\* returns a DataType and raises nothing.
C26_ResolverTotal ==
    resolved # Pending => resolved \in DataType

\* the dicts holding the items of tc in another key order
KeyOrders ==
    [n \in 0..MaxKeys |->
        {q \in [1..n -> 1..n] : \A i, j \in 1..n : i # j => q[i] # q[j]}]

Reorderings(tc) ==
    {[i \in 1..Len(tc) |-> tc[p[i]]] : p \in KeyOrders[Len(tc)]}

\* the types of the resolver harness in a fixed order, and the histograms
\* whose keys follow it: one representative for each set of items
TypeList == <<"Empty", "Integer", "Float", "Date", "DateTime", "Text">>

TypeRank(t) == CHOOSE i \in 1..Len(TypeList) : TypeList[i] = t

InListedOrder(tc) ==
    \A i \in 1..(Len(tc) - 1) : TypeRank(tc[i][1]) < TypeRank(tc[i + 1][1])

\* C27: the resolved type does not depend on the order in which the types
\* entered the histogram: every dict holding the items of a histogram in
\* another key order resolves to the type the histogram resolves to (stated
\* for the histogram whose keys are in the listed order, so that any two
\* orders of the same items agree), and no two types reach the threshold of
\* 80% of the non-Empty cells together.
C27_OrderIndependent ==
    resolved # Pending =>
        /\ InListedOrder(type_counts) =>
              \A h \in Reorderings(type_counts) : ResolveColumnType(h) = resolved
        /\ Cardinality(DominantTypes(type_counts)) <= 1

\* a histogram of three types resolved to its dominant type, which comes
\* last, after two types with equal counts
C27_Witness ==
    /\ resolved # Pending
    /\ InListedOrder(type_counts)
    /\ Len(type_counts) = 3
    /\ resolved = type_counts[3][1]
    /\ type_counts[1][2] = type_counts[2][2]
    /\ "Empty" \notin DictKeys(type_counts)
    /\ resolved \notin {"Float", "DateTime"}

\* C28: a histogram whose non-Empty types are exactly Integer and Float
\* resolves to Float, and one whose non-Empty types are exactly Date and
\* DateTime resolves to DateTime, whatever the counts; with a third
\* non-Empty type present nothing is widened: the result is the type
\* holding 80% of the non-Empty cells, or Mixed when there is none.
C28_WideningFirst ==
    resolved # Pending =>
        LET present == PresentTypes(type_counts)
        IN  /\ present = {"Integer", "Float"} => resolved = "Float"
            /\ present = {"Date", "DateTime"} => resolved = "DateTime"
            /\ Cardinality(present) >= 3 =>
                  /\ DominantTypes(type_counts) # {}
                        => resolved \in DominantTypes(type_counts)
                  /\ DominantTypes(type_counts) = {} => resolved = "Mixed"

\* nine Integer cells or more to every Float cell, resolved to Float
C28_Witness ==
    /\ resolved = "Float"
    /\ PresentTypes(type_counts) = {"Integer", "Float"}
    /\ DictGet(type_counts, "Integer", 0) >= 9 * DictGet(type_counts, "Float", 0)

\* the classified value is a string that reads, once stripped, as digits
\* only / as digits with one dot between them
DigitsOnly(s) == s # <<>> /\ \A i \in 1..Len(s) : s[i] \in Digits

DigitsAndDot(s) ==
    /\ Len(s) >= 3
    /\ s[1] \in Digits /\ s[Len(s)] \in Digits
    /\ \A i \in 1..Len(s) : s[i] \in Digits \cup {"."}
    /\ Cardinality({i \in 1..Len(s) : s[i] = "."}) = 1

\* C29: a string of decimal digits is classified Integer when it has one to
\* six digits and Phone when it has seven or more; digits with a dot among
\* them, seven characters or more in all, are classified Phone, not Float;
\* and no string matching the phone pattern is classified Integer or Float.
C29_PhoneBeforeNumbers ==
    (detected # Pending /\ value.kind = "str") =>
        LET s == Strip(value.s)
        IN  /\ (DigitsOnly(s) /\ Len(s) <= 6) => detected = "Integer"
            /\ (DigitsOnly(s) /\ Len(s) >= 7) => detected = "Phone"
            /\ (DigitsAndDot(s) /\ Len(s) >= 7) => detected = "Phone"
            /\ (DigitsAndDot(s) /\ Len(s) <= 6) => detected = "Float"
            /\ MatchesPhone(s) => detected \notin {"Integer", "Float"}

\* a digit, a dot and six digits, which float() would accept, classified
\* Phone
C29_Witness ==
    /\ detected = "Phone"
    /\ value.kind = "str"
    /\ DigitsAndDot(Strip(value.s))
    /\ FloatParse(Strip(value.s)) = "ok"

\* the filter is absent or an empty list
NoFilter == sheet_names = NoneVal \/ sheet_names.items = <<>>

\* the names whose sheets the filter asks for: every name of the workbook in
\* workbook order without a filter, else the list's entries that name a
\* sheet of the workbook, in list order, repeated as often as listed
ImportedNames ==
    IF NoFilter
    THEN [i \in 1..Len(wb) |-> wb[i].name]
    ELSE SelectSeq(sheet_names.items,
                   LAMBDA n : \E i \in 1..Len(wb) : wb[i].name = n)

\* the SheetData of the workbook's sheet of that name
SheetDataOf(name) ==
    LET ws == wb[CHOOSE i \in 1..Len(wb) : wb[i].name = name]
    IN  ProcessSheet(ws.rows, name, has_header, max_rows)

\* C30: the sheet filter decides the sheets imported: absent or an empty
\* list, every sheet of the workbook is imported in workbook order; a
\* non-empty list, the result holds one SheetData for each list entry that
\* names a sheet, in list order, and nothing else, so a name listed twice is
\* imported twice and counted twice in total_rows and total_columns.
C30_SheetFilter ==
    pc = "returned" =>
        /\ Len(returned.sheets) = Len(ImportedNames)
        /\ \A i \in 1..Len(ImportedNames) :
              returned.sheets[i] = SheetDataOf(ImportedNames[i])
        /\ returned.total_rows =
              SumSeq([i \in 1..Len(ImportedNames) |->
                         SheetDataOf(ImportedNames[i]).row_count])
        /\ returned.total_columns =
              SumSeq([i \in 1..Len(ImportedNames) |->
                         SheetDataOf(ImportedNames[i]).col_count])

\* a sheet with data listed twice: two equal SheetData, its rows and columns
\* counted twice
C30_Witness ==
    /\ pc = "returned"
    /\ sheet_names # NoneVal
    /\ sheet_names.items = <<NameSeq[1], NameSeq[1]>>
    /\ Len(wb) = 2
    /\ Len(returned.sheets) = 2
    /\ returned.sheets[1] = returned.sheets[2]
    /\ returned.sheets[1].row_count > 0
    /\ returned.total_rows = 2 * returned.sheets[1].row_count
    /\ returned.total_columns = 2 * returned.sheets[1].col_count

\* an empty list given: the whole workbook imported
C30_WitnessEmptyList ==
    /\ pc = "returned"
    /\ sheet_names # NoneVal
    /\ sheet_names.items = <<>>
    /\ Len(returned.sheets) = 2
    /\ returned.sheets[2].name = NameSeq[2]
====
